---- MODULE Spec2Model ----
(***************************************************************************)
(* TakeoffAI detection pipeline: Phase 1 context extraction                *)
(* (context.py), Phase 2 coarse grid inspection (vlm.py), Phase 3 agentic  *)
(* refinement (agent.py), Phase 4 synthesis (synthesize.py) and the job    *)
(* worker that sequences them (job_processor.py).                          *)
(*                                                                         *)
(* Python strings that the code inspects character by character (labels)   *)
(* are sequences of one-character strings.  Optional values are wrapped:   *)
(* None is the record Null, a present list l is [list |-> l].              *)
(***************************************************************************)
EXTENDS Integers, Sequences, FiniteSets, TLC

VARIABLES
    scope,            \* which entry point this behaviour exercises
    cfg,              \* PipelineConfig fields the code reads
    plan,             \* size of the rendered plan image: [w, h]
    \* ---- Phase 2: inspect_batch / inspect_cell (vlm.py) ----
    cells,            \* grid.cells handed to inspect_batch
    batchPc,          \* inspect_batch: "idle" | "running" | "returned" | "raised"
    batchCtx,         \* the context argument of inspect_batch
    semaphore,        \* asyncio.Semaphore value (free slots)
    taskPc,           \* per cell task: "ready" | "calling" | "sleeping" | "done" | "raised" | "cancelled"
    taskCtx,          \* the context each inspect_cell was given
    attempt,          \* per cell: the retry loop's attempt index
    taskOut,          \* per cell: detections returned by inspect_cell
    exhausted,        \* per cell: the for-else branch (rate limit exhausted) was taken
    cellCalls,        \* per cell: remote calls issued
    cellSleeps,       \* per cell: backoff delays slept, in order
    doneQueue,        \* as_completed's queue: tasks in completion order, not yet awaited
    all_detections,   \* inspect_batch's accumulator
    completed,        \* inspect_batch's counter
    \* ---- Phase 3: AgentOrchestrator (agent.py) ----
    agentPc,          \* "none" | "constructed" | "loop" | "await_orch" | "tools"
                      \* | "await_crop" | "crop_sleep" | "returned" | "raised"
    agentCtx,         \* self.context
    detections,       \* self.detections
    new_detections,   \* run()'s local list
    vlm_calls,        \* self.vlm_calls
    iteration,        \* the for loop's index
    messages,         \* the transcript sent to the orchestrating model
    tool_uses,        \* tool_use blocks of the current response
    tool_idx,         \* position in tool_uses
    tool_results,     \* tool results collected in this turn
    cropAttempt,      \* inspect_crop's attempt index
    phase3,           \* the PhaseResult of run()
    orchCalls,        \* remote calls to the orchestrating model
    cropStarted,      \* _tool_crop_and_inspect invocations
    cropRemote,       \* remote calls issued by the latest inspect_crop
    cropSleeps,       \* backoff delays slept by the current inspect_crop, in order
    \* ---- Phase 1: extract_context (context.py) ----
    ctxPc,            \* "none" | "await" | "returned" | "raised"
    ctxOut,           \* the DrawingContext extract_context returns
    phase1,           \* the PhaseResult extract_context returns
    \* ---- the job worker (job_processor.py) and Phase 4 ----
    jobPc,            \* "pending" | "page" | "phase1" | "phase2" | "phase3"
                      \* | "phase4" | "finishing" | "committed" | "completed" | "failed"
                      \* | "failed_unsaved"
    status,           \* Job.status
    context,          \* the worker's context for the page
    coarse_detections,\* Phase 2 result held by the worker
    job_detections,   \* the worker's all_detections, the input of synthesize
    synthCtx,         \* the context argument of synthesize
    report,           \* the SynthesisReport of the page, Null before Phase 4
    page_vlm,         \* the page's VLM call total (vlm_calls_used), Null before Phase 4
    error_message,    \* the job row's error_message, Null while unset
    progress_message, \* the job row's progress_message of a failure, Null while unset
    sheet_results     \* the SheetResult rows committed for the job

batchVars == << cells, batchPc, batchCtx, semaphore, taskPc, taskCtx, attempt,
               taskOut, exhausted, cellCalls, cellSleeps, doneQueue,
               all_detections, completed >>

agentVars == << agentPc, agentCtx, detections, new_detections, vlm_calls,
               iteration, messages, tool_uses, tool_idx, tool_results,
               cropAttempt, phase3, orchCalls, cropStarted, cropRemote,
               cropSleeps >>

ctxVars == << ctxPc, ctxOut, phase1 >>

jobVars == << jobPc, status, context, coarse_detections, job_detections,
             synthCtx, report, page_vlm,
                    error_message, progress_message, sheet_results >>

vars == << scope, cfg, plan, batchVars, agentVars, ctxVars, jobVars >>

----------------------------------------------------------------------------
(* Bounds of the model *)

MaxCols == 2
JobCols == 2

\* The page-wide call cap the job configurations carry.
MaxTotal == 4
MaxConcurrent == 2
MaxBudget == 2
MaxIterations == 2
AgentIterations == 3
MaxDets == 3
MaxPlanW == 6
MaxPlanH == 4
MaxGridCols == 3
MaxGridRows == 2

----------------------------------------------------------------------------
(* Values *)

Null == [null |-> TRUE]

Range(s) == { s[i] : i \in 1..Len(s) }

RECURSIVE Concat(_)
Concat(ss) == IF ss = << >> THEN << >> ELSE Head(ss) \o Concat(Tail(ss))

Min(a, b) == IF a < b THEN a ELSE b

\* A delay growing by the base, not doubling.
Pow2Linear(n) == n + 1

RECURSIVE Pow2(_)
Pow2(n) == IF n = 0 THEN 1 ELSE 2 * Pow2(n - 1)


----------------------------------------------------------------------------
(* Strings the code inspects: labels.  str.upper(), str.strip(), re.match *)

UpperChar(c) ==
    CASE c = "a" -> "A" [] c = "b" -> "B" [] c = "c" -> "C" [] c = "d" -> "D"
      [] c = "e" -> "E" [] c = "f" -> "F" [] c = "g" -> "G" [] c = "h" -> "H"
      [] c = "i" -> "I" [] c = "j" -> "J" [] c = "k" -> "K" [] c = "l" -> "L"
      [] c = "m" -> "M" [] c = "n" -> "N" [] c = "o" -> "O" [] c = "p" -> "P"
      [] c = "q" -> "Q" [] c = "r" -> "R" [] c = "s" -> "S" [] c = "t" -> "T"
      [] c = "u" -> "U" [] c = "v" -> "V" [] c = "w" -> "W" [] c = "x" -> "X"
      [] c = "y" -> "Y" [] c = "z" -> "Z" [] OTHER -> c

Upper(s) == [ i \in 1..Len(s) |-> UpperChar(s[i]) ]

\* The characters the texts of the model are written in, in code point order.
Alphabet ==
    << " ", "0", "1", "2", "3", "4", "5", "6", "7", "8", "9",
       "A", "B", "C", "D", "E", "F", "G", "H", "I", "J", "K", "L", "M",
       "N", "O", "P", "Q", "R", "S", "T", "U", "V", "W", "X", "Y", "Z",
       "a", "b", "c", "d", "e", "f", "g", "h", "i", "j", "k", "l", "m",
       "n", "o", "p", "q", "r", "s", "t", "u", "v", "w", "x", "y", "z" >>

Ord(c) == CHOOSE i \in 1..Len(Alphabet) : Alphabet[i] = c

LowerChar(c) ==
    IF \E i \in 12..37 : Alphabet[i] = c THEN Alphabet[Ord(c) + 26] ELSE c

Lower(s) == [ i \in 1..Len(s) |-> LowerChar(s[i]) ]

\* Python's "a in b" for strings.
Contains(b, a) ==
    \E i \in 0..(Len(b) - Len(a)) : SubSeq(b, i + 1, i + Len(a)) = a

RoomText(d) == IF d.room = Null THEN << >> ELSE Lower(d.room.str)

RECURSIVE LStrip(_)
LStrip(s) == IF s # << >> /\ Head(s) = " " THEN LStrip(Tail(s)) ELSE s

RECURSIVE RStrip(_)
RStrip(s) ==
    IF s # << >> /\ s[Len(s)] = " " THEN RStrip(SubSeq(s, 1, Len(s) - 1)) ELSE s

Strip(s) == RStrip(LStrip(s))

IsDigit(c) == c \in {"0", "1", "2", "3", "4", "5", "6", "7", "8", "9"}

IsUpperLetter(c) ==
    c \in { "A", "B", "C", "D", "E", "F", "G", "H", "I", "J", "K", "L", "M",
            "N", "O", "P", "Q", "R", "S", "T", "U", "V", "W", "X", "Y", "Z" }

\* The default pattern LT\d{2,3}[A-Z]? (config.py line 47) matched against
\* the whole label.
label_pattern_fullmatch(label) ==
    /\ Len(label) >= 4
    /\ label[1] = "L"
    /\ label[2] = "T"
    /\ IsDigit(label[3])
    /\ IsDigit(label[4])
    /\ LET rest == SubSeq(label, 5, Len(label))
       IN  \/ rest = << >>
           \/ Len(rest) = 1 /\ (IsDigit(rest[1]) \/ IsUpperLetter(rest[1]))
           \/ Len(rest) = 2 /\ IsDigit(rest[1]) /\ IsUpperLetter(rest[2])

\* re.match(cfg.label_pattern, label) with the default pattern
\* LT\d{2,3}[A-Z]? : re.match anchors at the start only, so the optional
\* third digit and letter never decide the outcome.
label_pattern_match(label) ==
    /\ Len(label) >= 4
    /\ label[1] = "L"
    /\ label[2] = "T"
    /\ IsDigit(label[3])
    /\ IsDigit(label[4])

----------------------------------------------------------------------------
(* Phase 1 output: DrawingContext (models.py) *)

DefaultContext ==
    [ sheet_title |-> Null, suites |-> [list |-> << >>],
      fixture_types_visible |-> [list |-> << >>] ]

----------------------------------------------------------------------------
(* Grid decomposition (grid.py) *)

PlanW == 300
PlanH == 100

\* plan_img.size of the page the worker renders (grid.py line 26).
PlanImage == [ w |-> PlanW, h |-> PlanH ]

\* Cells one pixel wider than the column step.
decompose_wide(W, H, cols, rows) ==
    LET cw == W \div cols
        ch == H \div rows
    IN  [ i \in 1..(rows * cols) |->
            LET r == (i - 1) \div cols
                c == (i - 1) % cols
                x0 == c * cw
                y0 == r * ch
            IN  [ row |-> r, col |-> c, x0 |-> x0, y0 |-> y0,
                  x1 |-> Min(x0 + cw + 1, W), y1 |-> Min(y0 + ch, H) ] ]

\* grid.py lines 26-50: the cells in row-major order.
decompose(W, H, cols, rows) ==
    LET cw == W \div cols
        ch == H \div rows
    IN  [ i \in 1..(rows * cols) |->
            LET r == (i - 1) \div cols
                c == (i - 1) % cols
                x0 == c * cw
                y0 == r * ch
            IN  [ row |-> r, col |-> c, x0 |-> x0, y0 |-> y0,
                  x1 |-> Min(x0 + cw, W), y1 |-> Min(y0 + ch, H) ] ]

----------------------------------------------------------------------------
(* Phase 2: inspect_cell and inspect_batch (vlm.py) *)

Phase2Attempts == 4
BackoffBase == 15

lower_lt04 == << "l", "t", "0", "4" >>
LT04 == << "L", "T", "0", "4" >>
LT04XY == << "L", "T", "0", "4", "X", "Y" >>
FS22 == << "F", "S", "2", "2" >>

RawDet(label, xp, yp, conf) ==
    [ label |-> label,
      position |-> [kind |-> "dict", x |-> [num |-> xp], y |-> [num |-> yp]],
      confidence |-> conf, room |-> Null ]

\* What the detection model may answer for one cell.
CellDetLists ==
    { << >>,
      << RawDet(lower_lt04, 0, 50, "MEDIUM"), RawDet(LT04, 30, 50, "MEDIUM") >>,
      << RawDet(LT04, 70, 50, "MEDIUM") >>,
      \* with positions that are no complete object of numbers: a list, an
      \* object without x, and (last list) an object whose x is null
      << RawDet(FS22, 50, 50, "HIGH"), RawDet(LT04XY, 50, 50, "HIGH"),
         [ RawDet(LT04, 0, 0, "LOW") EXCEPT !.position = [kind |-> "list"] ],
         [ RawDet(LT04, 0, 0, "LOW") EXCEPT
             !.position = [kind |-> "dict", y |-> [num |-> 20]] ] >>,
      << [ RawDet(LT04, 0, 0, "LOW") EXCEPT
             !.position = [kind |-> "dict", x |-> Null, y |-> [num |-> 20]] ] >> }

\* In a whole job the answers are fewer: failure kinds, nothing, one label.
JobCellDetLists == { << RawDet(LT04, 0, 50, "MEDIUM") >> }

CellResponses ==
    IF scope = "job"
    THEN { [kind |-> k, dets |-> << >>] : k \in {"rate_limit", "error", "garbage"} }
         \cup { [kind |-> "ok", dets |-> l] : l \in JobCellDetLists }
    ELSE { [kind |-> k, dets |-> << >>] :
             k \in {"rate_limit", "error", "garbage", "nonobject"} }
         \cup { [kind |-> "ok", dets |-> l] : l \in CellDetLists }

\* vlm.py _parse_json followed by data.get("detections", []): text that is no
\* JSON at all falls back to the empty default; JSON that is not an object
\* has no .get and raises.
CellParseRaises(resp) == resp.kind = "nonobject"

CellParsed(resp) == IF resp.kind = "ok" THEN resp.dets ELSE << >>

\* pos.get(k, 50) of lines 115-116.
PosGet(pos, k) == IF k \in DOMAIN pos THEN pos[k] ELSE [num |-> 50]

\* Lines 115-116 divide the value by 100: a null (or text) value raises.
PosRaises(pos) ==
    pos.kind = "dict" /\ (PosGet(pos, "x") = Null \/ PosGet(pos, "y") = Null)

\* Whether building the detections of an answer raises at lines 115-116:
\* some detection with an accepted label has such a position.
CellPositionRaises(resp) ==
    /\ resp.kind = "ok"
    /\ \E i \in 1..Len(resp.dets) :
         /\ label_pattern_match(Strip(Upper(resp.dets[i].label)))
         /\ PosRaises(resp.dets[i].position)

\* Lines 113-119: page-global pixel position of one raw detection.
CellPx(cell, pos) ==
    IF pos.kind = "dict"
    THEN [ x |-> cell.x0 + (PosGet(pos, "x").num * (cell.x1 - cell.x0)) \div 100,
           y |-> cell.y0 + (PosGet(pos, "y").num * (cell.y1 - cell.y0)) \div 100 ]
    ELSE [ x |-> (cell.x0 + cell.x1) \div 2, y |-> (cell.y0 + cell.y1) \div 2 ]

\* Lines 107-132: the accepted detections of one cell, in reported order.
RECURSIVE CellDetections(_, _)
CellDetections(cell, raws) ==
    IF raws = << >> THEN << >>
    ELSE LET d == Head(raws)
             label == Strip(Upper(d.label))
             p == CellPx(cell, d.position)
             rest == CellDetections(cell, Tail(raws))
         IN  IF ~label_pattern_match(label) THEN rest
             ELSE << [ label |-> label, x |-> p.x, y |-> p.y,
                       confidence |-> d.confidence, room |-> d.room,
                       source_phase |-> 2,
                       source_cell |-> << cell.col, cell.row >> ] >> \o rest

CellIds == DOMAIN cells

\* async with semaphore: the slots held right now.
Holding(c) == taskPc[c] \in {"calling", "sleeping"}

\* Off by one: a slot is handed out at value 0 as well.
SemaphoreFreeAtZero == semaphore >= 0

\* asyncio.Semaphore.acquire: a slot is taken only while the value is positive.
SemaphoreFree == semaphore > 0

\* inspect_batch lines 143-148: semaphore and one task per cell.
inspect_batch_enter(cs, ctx) ==
    /\ batchPc' = "running"
    /\ cells' = cs
    /\ batchCtx' = ctx
    /\ semaphore' = cfg.max_concurrent
    /\ taskPc' = [ c \in DOMAIN cs |-> "ready" ]
    /\ taskCtx' = [ c \in DOMAIN cs |-> ctx ]
    /\ attempt' = [ c \in DOMAIN cs |-> 0 ]
    /\ taskOut' = [ c \in DOMAIN cs |-> << >> ]
    /\ exhausted' = [ c \in DOMAIN cs |-> FALSE ]
    /\ cellCalls' = [ c \in DOMAIN cs |-> 0 ]
    /\ cellSleeps' = [ c \in DOMAIN cs |-> << >> ]
    /\ doneQueue' = << >>
    /\ all_detections' = << >>
    /\ completed' = 0

\* A cell task leaves the async-with block: slot released, result queued.
TaskFinish(c, pc, out, exh) ==
    /\ taskPc' = [taskPc EXCEPT ![c] = pc]
    /\ taskOut' = [taskOut EXCEPT ![c] = out]
    /\ exhausted' = [exhausted EXCEPT ![c] = exh]
    /\ semaphore' = semaphore + 1
    /\ doneQueue' = Append(doneQueue, c)

\* inspect_cell line 76: enter the semaphore, line 81: first remote call.
CellAcquire(c) ==
    /\ batchPc = "running"
    /\ taskPc[c] = "ready"
    /\ SemaphoreFree
    /\ semaphore' = semaphore - 1
    /\ taskPc' = [taskPc EXCEPT ![c] = "calling"]
    /\ cellCalls' = [cellCalls EXCEPT ![c] = @ + 1]
    /\ UNCHANGED << agentVars, ctxVars, jobVars >>
    /\ UNCHANGED << scope, cfg, plan, cells, batchPc, batchCtx, taskCtx, attempt,
                    taskOut, exhausted, cellSleeps, doneQueue, all_detections,
                    completed >>

\* inspect_cell lines 79-134: the remote call of cell c ends with resp.
CellRespond(c, resp) ==
    /\ batchPc = "running"
    /\ taskPc[c] = "calling"
    /\ IF resp.kind = "rate_limit"
       THEN /\ taskPc' = [taskPc EXCEPT ![c] = "sleeping"]
            /\ cellSleeps' =
                 [cellSleeps EXCEPT ![c] = Append(@, BackoffBase * Pow2(attempt[c]))]
            /\ UNCHANGED << taskOut, exhausted, semaphore, doneQueue >>
       ELSE /\ IF \/ resp.kind = "error"
                     \/ CellParseRaises(resp)
                     \/ CellPositionRaises(resp)
               THEN TaskFinish(c, "raised", << >>, FALSE)
               ELSE TaskFinish(c, "done",
                               CellDetections(cells[c], CellParsed(resp)), FALSE)
            /\ UNCHANGED cellSleeps
    /\ UNCHANGED << agentVars, ctxVars, jobVars >>
    /\ UNCHANGED << scope, cfg, plan, cells, batchPc, batchCtx, taskCtx, attempt,
                    cellCalls, all_detections, completed >>

\* inspect_cell lines 99-102: the backoff sleep ends; next attempt or give up.
CellWake(c) ==
    /\ batchPc = "running"
    /\ taskPc[c] = "sleeping"
    /\ IF attempt[c] + 1 < Phase2Attempts
       THEN /\ attempt' = [attempt EXCEPT ![c] = @ + 1]
            /\ taskPc' = [taskPc EXCEPT ![c] = "calling"]
            /\ cellCalls' = [cellCalls EXCEPT ![c] = @ + 1]
            /\ UNCHANGED << taskOut, exhausted, semaphore, doneQueue >>
       ELSE /\ TaskFinish(c, "done", << >>, TRUE)
            /\ UNCHANGED << attempt, cellCalls >>
    /\ UNCHANGED << agentVars, ctxVars, jobVars >>
    /\ UNCHANGED << scope, cfg, plan, cells, batchPc, batchCtx, taskCtx, cellSleeps,
                    all_detections, completed >>

\* Keeping the detections of the latest cell only.
extend_overwrite(all, dets) == dets

\* inspect_batch line 153: all_detections.extend(dets).
extend(all, dets) == all \o dets

\* inspect_batch lines 150-156: await the next completed task.
BatchCollect ==
    /\ batchPc = "running"
    /\ doneQueue # << >>
    /\ LET c == Head(doneQueue)
       IN  IF taskPc[c] = "raised"
           THEN /\ batchPc' = "raised"
                /\ UNCHANGED << all_detections, completed >>
           ELSE /\ all_detections' = extend(all_detections, taskOut[c])
                /\ completed' = completed + 1
                /\ batchPc' = IF completed + 1 = Len(cells)
                              THEN "returned" ELSE "running"
    /\ doneQueue' = Tail(doneQueue)
    /\ UNCHANGED << agentVars, ctxVars, jobVars >>
    /\ UNCHANGED << scope, cfg, plan, cells, batchCtx, semaphore, taskPc, taskCtx,
                    attempt, taskOut, exhausted, cellCalls, cellSleeps >>

\* A caller enters inspect_batch (the entry point of SpecBatch).
BatchStart ==
    /\ scope = "batch"
    /\ batchPc = "idle"
    /\ inspect_batch_enter(cells, batchCtx)
    /\ UNCHANGED << scope, cfg, plan, agentVars, ctxVars, jobVars >>

Phase2Step ==
    \/ \E c \in CellIds : CellAcquire(c)
    \/ \E c \in CellIds : \E resp \in CellResponses : CellRespond(c, resp)
    \/ \E c \in CellIds : CellWake(c)
    \/ BatchCollect

----------------------------------------------------------------------------
(* Phase 3: AgentOrchestrator (agent.py) and inspect_crop (vlm.py) *)

CropAttempts == 3
CropBackoffBase == 15

ToolUse(name, xp, yp) == [ name |-> name, x_pct |-> xp, y_pct |-> yp ]

Crop(xp, yp) == ToolUse("crop_and_inspect", xp, yp)
ValidatePattern == ToolUse("validate_pattern", 0, 0)
ValidateCorridor ==
    [ name |-> "validate_pattern", x_pct |-> 0, y_pct |-> 0,
      pattern_type |-> "corridor" ]
GetCurrentState == ToolUse("get_current_state", 0, 0)
Finalize == ToolUse("finalize", 0, 0)
UnknownTool == ToolUse("zoom", 0, 0)

\* The tool calls one response of the orchestrating model may carry.
OrchToolLists ==
    { << Crop(50, 50) >>,
      << Crop(25, 50), Crop(75, 50) >>,
      << ValidatePattern >>,
      << Crop(50, 50), GetCurrentState, ValidateCorridor >>,
      << Finalize >>,
      << Crop(25, 50), Finalize, Crop(75, 50) >>,
      << UnknownTool >> }

\* The turns tried inside a whole job (the full set is tried on the
\* orchestrator alone).
JobOrchToolLists ==
    { << Crop(50, 50) >>,
      << Crop(25, 50), Crop(75, 50) >>,
      << Finalize >> }

OrchResponses ==
    { [kind |-> "raise", stop_reason |-> "none", tools |-> << >>],
      [kind |-> "message", stop_reason |-> "end_turn", tools |-> << >>] }
    \cup (IF scope = "job" THEN { }
          ELSE { [kind |-> "message", stop_reason |-> "max_tokens", tools |-> << >>] })
    \cup { [kind |-> "message", stop_reason |-> "tool_use", tools |-> l] :
             l \in IF scope = "job" THEN JobOrchToolLists ELSE OrchToolLists }

\* What the detection model may answer for one crop.
CropDetLists ==
    { << RawDet(LT04, 50, 50, "HIGH") >>,
      << RawDet(lower_lt04, 50, 50, "MEDIUM"), RawDet(FS22, 50, 50, "HIGH"),
         RawDet(LT04, 10, 90, "HIGH"),
         [ RawDet(LT04XY, 50, 50, "HIGH") EXCEPT
             !.room = [str |-> << "C", "o", "r", "r", "i", "d", "o", "r" >>] ] >> }

JobCropDetLists == { << RawDet(LT04, 50, 50, "HIGH") >> }

CropResponses ==
    IF scope = "job"
    THEN { [kind |-> k, dets |-> << >>] : k \in {"rate_limit", "error"} }
         \cup { [kind |-> "ok", dets |-> l] : l \in JobCropDetLists }
    ELSE { [kind |-> k, dets |-> << >>] :
             k \in {"rate_limit", "error", "garbage", "nonobject"} }
         \cup { [kind |-> "ok", dets |-> l] : l \in CropDetLists }

\* Placing each detection of a crop apart from the others.
CropDetectionsSpread(tu, raws) ==
    LET Accepted(d) == label_pattern_match(Strip(Upper(d.label)))
        acc == SelectSeq(raws, Accepted)
    IN  [ i \in 1..Len(acc) |->
            [ label |-> Strip(Upper(acc[i].label)),
              x |-> (tu.x_pct * PlanW) \div 100 + i * PlanW,
              y |-> (tu.y_pct * PlanH) \div 100,
              confidence |-> acc[i].confidence, room |-> acc[i].room,
              source_phase |-> 3, source_cell |-> << >> ] ]

\* _tool_crop_and_inspect lines 184-201: accepted detections of one crop.
RECURSIVE CropDetections(_, _)
CropDetections(tu, raws) ==
    IF raws = << >> THEN << >>
    ELSE LET d == Head(raws)
             label == Strip(Upper(d.label))
             rest == CropDetections(tu, Tail(raws))
         IN  IF ~label_pattern_match(label) THEN rest
             ELSE << [ label |-> label,
                       x |-> (tu.x_pct * PlanW) \div 100,
                       y |-> (tu.y_pct * PlanH) \div 100,
                       confidence |-> d.confidence, room |-> d.room,
                       source_phase |-> 3, source_cell |-> << >> ] >> \o rest

\* _tool_get_state lines 288-296, the fields the claims read.
tool_get_state ==
    [ total_detections |-> Len(detections),
      vlm_calls_used |-> vlm_calls,
      vlm_calls_remaining |-> cfg.max_vlm_calls_phase3 - vlm_calls ]

\* _tool_validate_pattern lines 210-221: the checks pattern_type selects,
\* with _validate_suite_kitchen's early exit (lines 225-227) and
\* _validate_corridor's total (lines 271-275).
tool_validate_pattern(params) ==
    LET pattern == IF "pattern_type" \in DOMAIN params
                   THEN params.pattern_type ELSE "all"
        keys == (IF pattern \in {"suite_kitchen", "all"}
                 THEN {"suite_kitchen"} ELSE {})
                \cup (IF pattern \in {"corridor", "all"} THEN {"corridor"} ELSE {})
        corridor_dets ==
            { i \in 1..Len(detections) :
                Contains(RoomText(detections[i]),
                         << "c", "o", "r", "r", "i", "d", "o", "r" >>) }
    IN  [ k \in keys |->
            IF k = "suite_kitchen"
            THEN [ status |-> IF agentCtx.suites = [list |-> << >>]
                              THEN "no_suite_data" ELSE "checked" ]
            ELSE [ total_corridor_fixtures |-> Cardinality(corridor_dets) ] ]

\* A local tool handing the running list back as its new detections.
execute_local_tool_echo(tu) ==
    [ kind |-> tu.name, content |-> tool_get_state, details |-> << >>,
      found |-> detections ]

\* _execute_tool lines 153-160 for the tools that make no remote call: the
\* result and the new detections, which are none.
execute_local_tool(tu) ==
    IF tu.name = "validate_pattern"
    THEN [ kind |-> "validate_pattern", content |-> tool_validate_pattern(tu),
           details |-> << >>, found |-> << >> ]
    ELSE IF tu.name = "get_current_state"
    THEN [ kind |-> "get_current_state", content |-> tool_get_state,
           details |-> << >>, found |-> << >> ]
    ELSE [ kind |-> "error", content |-> tu.name, details |-> << >>,
           found |-> << >> ]

ToolUseId(call, idx) == << call, idx >>

\* AgentOrchestrator.__init__ lines 40-48.
agent_construct(ctx, coarse) ==
    /\ agentPc' = "constructed"
    /\ agentCtx' = ctx
    /\ detections' = coarse
    /\ vlm_calls' = 0
    /\ new_detections' = << >>
    /\ iteration' = 0
    /\ messages' = << >>
    /\ tool_uses' = << >>
    /\ tool_idx' = 0
    /\ tool_results' = << >>
    /\ cropAttempt' = 0
    /\ phase3' = [ phase |-> 3, detections |-> << >>, vlm_calls |-> 0,
                   error |-> Null, summary |-> Null ]
    /\ orchCalls' = 0
    /\ cropStarted' = 0
    /\ cropRemote' = 0
    /\ cropSleeps' = << >>

\* The budget check at the head of each iteration, line 68-69.
BudgetLeft == cfg.max_vlm_calls_phase3 - vlm_calls > 0

\* Returning the running list, coarse detections included.
ReturnedDetectionsRunning(nd) == detections

\* run() lines 136-144 (and 112-116 for finalize): fill and return the phase.
ReturnedDetections(nd) == nd

agent_return(err, summary) ==
    /\ agentPc' = "returned"
    /\ phase3' = [ phase3 EXCEPT !.detections = ReturnedDetections(new_detections),
                                 !.vlm_calls = vlm_calls,
                                 !.error = err,
                                 !.summary = summary ]

\* Returning the phase on the error path without the detections found so far.
orch_error_discard ==
    /\ agentPc' = "returned"
    /\ phase3' = [ phase3 EXCEPT !.error = [str |-> "orchestrator error"] ]

\* run() lines 81-84 and 136-144: the orchestrator call raised; the error is
\* recorded, the loop is left and the phase returned.
orch_error_return == agent_return([str |-> "orchestrator error"], Null)

\* Returning on finalize without storing the detections found so far.
finalize_drop ==
    /\ agentPc' = "returned"
    /\ phase3' = [ phase3 EXCEPT !.summary = [str |-> "summary"] ]

\* run() lines 108-116: finalize fills the phase and returns at once.
finalize_return == agent_return(Null, [str |-> "summary"])

\* run() lines 55-65.
AgentRun ==
    /\ agentPc = "constructed"
    /\ IF cfg.max_vlm_calls_phase3 <= 0
       THEN /\ agentPc' = "returned"
            /\ UNCHANGED messages
       ELSE /\ agentPc' = "loop"
            /\ messages' = << [role |-> "user", ids |-> << >>, results |-> << >>] >>
    /\ UNCHANGED << agentCtx, detections, new_detections, vlm_calls, iteration,
                    tool_uses, tool_idx, tool_results, cropAttempt, phase3,
                    orchCalls, cropStarted, cropRemote,
                    cropSleeps >>
    /\ UNCHANGED << scope, cfg, plan, batchVars, ctxVars, jobVars >>

\* run() lines 67-80: loop head; the orchestrator call is issued or the loop ends.
AgentLoopHead ==
    /\ agentPc = "loop"
    /\ IF iteration < cfg.max_agent_iterations /\ BudgetLeft
       THEN /\ agentPc' = "await_orch"
            /\ orchCalls' = orchCalls + 1
            /\ UNCHANGED phase3
       ELSE /\ agent_return(Null, Null)
            /\ UNCHANGED orchCalls
    /\ UNCHANGED << agentCtx, detections, new_detections, vlm_calls, iteration,
                    messages, tool_uses, tool_idx, tool_results, cropAttempt,
                    cropStarted, cropRemote,
                    cropSleeps >>
    /\ UNCHANGED << scope, cfg, plan, batchVars, ctxVars, jobVars >>

\* run() lines 81-100: the orchestrator call ends with resp.
OrchRespond(resp) ==
    /\ agentPc = "await_orch"
    /\ IF resp.kind = "raise"
       THEN /\ orch_error_return
            /\ UNCHANGED << messages, tool_uses, tool_idx, tool_results, iteration >>
       ELSE /\ messages' = Append(messages,
                 [ role |-> "assistant",
                   ids |-> [ i \in 1..Len(resp.tools) |-> ToolUseId(orchCalls, i) ],
                   results |-> << >> ])
            /\ tool_uses' = resp.tools
            /\ IF resp.tools = << >>
               THEN /\ UNCHANGED << tool_idx, tool_results >>
                    /\ IF resp.stop_reason = "end_turn"
                       THEN /\ agent_return(Null, Null)
                            /\ UNCHANGED iteration
                       ELSE /\ agentPc' = "loop"
                            /\ iteration' = iteration + 1
                            /\ UNCHANGED phase3
               ELSE /\ agentPc' = "tools"
                    /\ tool_idx' = 1
                    /\ tool_results' = << >>
                    /\ UNCHANGED << iteration, phase3 >>
    /\ UNCHANGED << agentCtx, detections, new_detections, vlm_calls, cropAttempt,
                    orchCalls, cropStarted, cropRemote,
                    cropSleeps >>
    /\ UNCHANGED << scope, cfg, plan, batchVars, ctxVars, jobVars >>

\* Holding the detections of a turn back until its last tool call finished.
tool_done_deferred(res, dets) ==
    LET results == Append(tool_results,
                     [ tool_use_id |-> ToolUseId(orchCalls, tool_idx),
                       kind |-> res.kind, content |-> res.content,
                       details |-> dets ])
        turn == Concat([ j \in 1..Len(results) |-> results[j].details ])
    IN  /\ new_detections' = new_detections \o dets
        /\ IF tool_idx < Len(tool_uses)
           THEN /\ detections' = detections
                /\ tool_idx' = tool_idx + 1
                /\ tool_results' = results
                /\ agentPc' = "tools"
                /\ UNCHANGED << messages, iteration >>
           ELSE /\ detections' = detections \o turn
                /\ messages' = Append(messages,
                     [ role |-> "user",
                       ids |-> [ i \in 1..Len(results) |-> results[i].tool_use_id ],
                       results |-> results ])
                /\ tool_results' = results
                /\ tool_idx' = tool_idx
                /\ iteration' = iteration + 1
                /\ agentPc' = "loop"

\* run() lines 118-134: one tool call is finished with result res and dets.
tool_done(res, dets) ==
    LET results == Append(tool_results,
                     [ tool_use_id |-> ToolUseId(orchCalls, tool_idx),
                       kind |-> res.kind, content |-> res.content,
                       details |-> res.details ])
    IN  /\ new_detections' = new_detections \o dets
        /\ detections' = detections \o dets
        /\ IF tool_idx < Len(tool_uses)
           THEN /\ tool_idx' = tool_idx + 1
                /\ tool_results' = results
                /\ agentPc' = "tools"
                /\ UNCHANGED << messages, iteration >>
           ELSE /\ messages' = Append(messages,
                     [ role |-> "user",
                       ids |-> [ i \in 1..Len(results) |-> results[i].tool_use_id ],
                       results |-> results ])
                /\ tool_results' = results
                /\ tool_idx' = tool_idx
                /\ iteration' = iteration + 1
                /\ agentPc' = "loop"

\* run() lines 101-120 and _tool_crop_and_inspect lines 166-181: the next tool
\* call of the turn starts.  rendered: whether render_crop / image_to_base64
\* produced an image or raised.
ExecTool(rendered) ==
    /\ agentPc = "tools"
    /\ LET tu == tool_uses[tool_idx]
       IN  IF tu.name = "finalize"
           THEN /\ rendered
                /\ finalize_return
                /\ UNCHANGED << detections, new_detections, messages, iteration,
                                tool_idx, tool_results, cropAttempt, cropStarted,
                                cropRemote, cropSleeps >>
           ELSE IF tu.name = "crop_and_inspect"
           THEN /\ cropStarted' = cropStarted + 1
                /\ cropAttempt' = 0
                /\ cropSleeps' = << >>
                /\ IF rendered
                   THEN /\ agentPc' = "await_crop"
                        /\ cropRemote' = 1
                   ELSE /\ agentPc' = "raised"
                        /\ cropRemote' = 0
                /\ UNCHANGED << detections, new_detections, messages, iteration,
                                tool_idx, tool_results, phase3 >>
           ELSE /\ rendered
                /\ LET r == execute_local_tool(tu)
                   IN  tool_done(r, r.found)
                /\ UNCHANGED << cropAttempt, cropStarted, cropRemote, cropSleeps,
                                phase3 >>
    /\ UNCHANGED << agentCtx, vlm_calls, tool_uses, orchCalls >>
    /\ UNCHANGED << scope, cfg, plan, batchVars, ctxVars, jobVars >>

\* Counting an inspection only when it reported something.
crop_done_uncounted(raws) ==
    LET dets == CropDetections(tool_uses[tool_idx], raws)
    IN  /\ vlm_calls' = vlm_calls + (IF raws = << >> THEN 0 ELSE 1)
        /\ tool_done([ kind |-> "crop_and_inspect",
                       content |-> [detections_found |-> Len(dets)],
                       details |-> dets ], dets)

\* _tool_crop_and_inspect lines 182-208 once inspect_crop returned raws.
crop_done(raws) ==
    LET dets == CropDetections(tool_uses[tool_idx], raws)
    IN  /\ vlm_calls' = vlm_calls + 1
        /\ tool_done([ kind |-> "crop_and_inspect",
                       content |-> [detections_found |-> Len(dets)],
                       details |-> dets ], dets)

\* inspect_crop lines 181-205: the remote inspection call ends with resp.
CropRespond(resp) ==
    /\ agentPc = "await_crop"
    /\ IF resp.kind = "rate_limit"
       THEN /\ agentPc' = "crop_sleep"
            /\ cropSleeps' = Append(cropSleeps, CropBackoffBase * Pow2(cropAttempt))
            /\ UNCHANGED << detections, new_detections, vlm_calls, messages,
                            iteration, tool_idx, tool_results >>
       ELSE IF resp.kind = "error" \/ CellParseRaises(resp)
       THEN /\ agentPc' = "raised"
            /\ UNCHANGED << detections, new_detections, vlm_calls, messages,
                            iteration, tool_idx, tool_results, cropSleeps >>
       ELSE /\ crop_done(CellParsed(resp))
            /\ UNCHANGED cropSleeps
    /\ UNCHANGED << agentCtx, tool_uses, cropAttempt, phase3, orchCalls,
                    cropStarted, cropRemote >>
    /\ UNCHANGED << scope, cfg, plan, batchVars, ctxVars, jobVars >>

\* inspect_crop lines 199-201: the backoff sleep ends; next attempt or give up.
CropWake ==
    /\ agentPc = "crop_sleep"
    /\ IF cropAttempt + 1 < CropAttempts
       THEN /\ cropAttempt' = cropAttempt + 1
            /\ cropRemote' = cropRemote + 1
            /\ agentPc' = "await_crop"
            /\ UNCHANGED << detections, new_detections, vlm_calls, messages,
                            iteration, tool_idx, tool_results >>
       ELSE /\ crop_done(<< >>)
            /\ UNCHANGED << cropAttempt, cropRemote >>
    /\ UNCHANGED << agentCtx, tool_uses, phase3, orchCalls, cropStarted,
                    cropSleeps >>
    /\ UNCHANGED << scope, cfg, plan, batchVars, ctxVars, jobVars >>

Phase3Step ==
    \/ AgentRun
    \/ AgentLoopHead
    \/ \E resp \in OrchResponses : OrchRespond(resp)
    \/ \E rendered \in BOOLEAN : ExecTool(rendered)
    \/ \E resp \in CropResponses : CropRespond(resp)
    \/ CropWake

----------------------------------------------------------------------------
(* Phase 4: synthesize (synthesize.py) *)

dedup_radius_px == 50

\* CONF_RANK.get(d.confidence, 0), line 16 and 42.
CONF_RANK(conf) ==
    CASE conf = "HIGH" -> 3 [] conf = "MEDIUM" -> 2 [] conf = "LOW" -> 1
      [] OTHER -> 0

\* Comparing the confidence rank alone.
KeyGreaterByRank(a, b) == CONF_RANK(a.confidence) > CONF_RANK(b.confidence)

\* The sort key compared so that equal keys count as greater.
KeyGreaterOrEqual(a, b) ==
    \/ CONF_RANK(a.confidence) > CONF_RANK(b.confidence)
    \/ /\ CONF_RANK(a.confidence) = CONF_RANK(b.confidence)
       /\ a.source_phase >= b.source_phase

\* The sort key of line 42 compared as Python compares tuples.
KeyGreater(a, b) ==
    \/ CONF_RANK(a.confidence) > CONF_RANK(b.confidence)
    \/ /\ CONF_RANK(a.confidence) = CONF_RANK(b.confidence)
       /\ a.source_phase > b.source_phase

\* d placed after every element of t that sorts strictly before it.
RECURSIVE InsertDesc(_, _)
InsertDesc(d, t) ==
    IF t # << >> /\ KeyGreater(Head(t), d)
    THEN << Head(t) >> \o InsertDesc(d, Tail(t))
    ELSE << d >> \o t

\* sorted(detections, key=..., reverse=True), lines 40-44: descending and
\* stable (elements with equal keys keep their input order).
RECURSIVE sorted_dets(_)
sorted_dets(ds) ==
    IF ds = << >> THEN << >> ELSE InsertDesc(Head(ds), sorted_dets(Tail(ds)))

Abs(n) == IF n < 0 THEN -n ELSE n

\* The radius test with an inclusive comparison.
IsDupInclusive(existing, det, radius) ==
    /\ existing.label = det.label
    /\ Abs(existing.x - det.x) <= radius
    /\ Abs(existing.y - det.y) <= radius

\* The radius test without the label comparison.
IsDupAnyLabel(existing, det, radius) ==
    /\ Abs(existing.x - det.x) < radius
    /\ Abs(existing.y - det.y) < radius

\* Lines 52-54: det duplicates an already kept detection.
IsDup(existing, det, radius) ==
    /\ existing.label = det.label
    /\ Abs(existing.x - det.x) < radius
    /\ Abs(existing.y - det.y) < radius

\* A walk that stops at the first duplicate it meets.
DedupWalkStopAtDuplicate(ds, kept, duplicates, radius) ==
    LET dupAt == { n \in 1..Len(ds) :
                     \E i \in 1..(n - 1) : IsDup(ds[i], ds[n], radius) }
        stop == IF dupAt = {} THEN Len(ds) + 1
                ELSE CHOOSE n \in dupAt : \A m \in dupAt : n <= m
    IN  [ kept |-> kept \o SubSeq(ds, 1, stop - 1),
          duplicates |-> duplicates + (IF dupAt = {} THEN 0 ELSE 1) ]

\* Lines 46-60: the walk over the sorted list.
RECURSIVE DedupWalk(_, _, _, _)
DedupWalk(ds, kept, duplicates, radius) ==
    IF ds = << >> THEN [ kept |-> kept, duplicates |-> duplicates ]
    ELSE IF \E i \in 1..Len(kept) : IsDup(kept[i], Head(ds), radius)
    THEN DedupWalk(Tail(ds), kept, duplicates + 1, radius)
    ELSE DedupWalk(Tail(ds), Append(kept, Head(ds)), duplicates, radius)

\* Python's str < str on the characters of Alphabet.
RECURSIVE StrLess(_, _)
StrLess(a, b) ==
    IF b = << >> THEN FALSE
    ELSE IF a = << >> THEN TRUE
    ELSE IF Head(a) = Head(b) THEN StrLess(Tail(a), Tail(b))
    ELSE Ord(Head(a)) < Ord(Head(b))

RECURSIVE SortStrings(_)
SortStrings(S) ==
    IF S = {} THEN << >>
    ELSE LET m == CHOOSE x \in S : \A y \in S \ {x} : StrLess(x, y)
         IN  << m >> \o SortStrings(S \ {m})

\* Counting every kept label once, as a set of labels would.
final_counts_once(kept) ==
    LET labels == SortStrings({ kept[i].label : i \in 1..Len(kept) })
    IN  [ j \in 1..Len(labels) |-> [ label |-> labels[j], count |-> 1 ] ]

\* Lines 63 and 71: dict(sorted(Counter(labels).items())) as (label, count)
\* pairs in key order.
final_counts_of(kept) ==
    LET labels == SortStrings({ kept[i].label : i \in 1..Len(kept) })
    IN  [ j \in 1..Len(labels) |->
            [ label |-> labels[j],
              count |-> Cardinality({ i \in 1..Len(kept) :
                                        kept[i].label = labels[j] }) ] ]

\* _check_suite_coverage lines 92-111: at most one warning, naming the
\* suites no kept detection's room mentions.
check_suite_coverage(kept, ctx) ==
    LET suite_numbers == { s.number : s \in Range(ctx.suites.list) }
        detected == { sn \in suite_numbers :
                        \E i \in 1..Len(kept) :
                            Contains(RoomText(kept[i]), Lower(sn)) }
        missing == suite_numbers \ detected
    IN  IF missing # {} THEN << [ missing |-> SortStrings(missing) ] >>
        ELSE << >>

EmptyReport ==
    [ final_counts |-> << >>, total |-> 0, detections |-> << >>,
      duplicates_removed |-> 0, pattern_warnings |-> << >> ]

\* synthesize lines 34-83.
synthesize(dets, radius, ctx) ==
    IF dets = << >> THEN EmptyReport
    ELSE LET w == DedupWalk(sorted_dets(dets), << >>, 0, radius)
         IN  [ final_counts |-> final_counts_of(w.kept),
               total |-> Len(w.kept),
               detections |-> w.kept,
               duplicates_removed |-> w.duplicates,
               pattern_warnings |->
                 IF ctx # Null /\ ctx.suites # Null /\ ctx.suites.list # << >>
                 THEN check_suite_coverage(w.kept, ctx)
                 ELSE << >> ]

\* A caller applies synthesize to its list (the entry point of SpecSynth).
SynthesizeCall ==
    /\ scope = "synth"
    /\ report = Null
    /\ report' = synthesize(job_detections, cfg.dedup_radius_px, synthCtx)
    /\ UNCHANGED << jobPc, status, context, coarse_detections, job_detections,
                    synthCtx, page_vlm,
                    error_message, progress_message, sheet_results >>
    /\ UNCHANGED << scope, cfg, plan, batchVars, agentVars, ctxVars >>

----------------------------------------------------------------------------
(* Phase 1: extract_context (context.py) *)

Absent == [absent |-> TRUE]

suite301 == [ number |-> << "3", "0", "1" >> ]

ContextObject(title, suites, fixtures) ==
    [ sheet_title |-> title, suites |-> suites, fixture_types_visible |-> fixtures ]

\* What the context call may end with: an exception of the remote call, text
\* that holds no JSON, JSON that is not an object (a list; a number), or a
\* JSON object whose fields are present, null or absent.
ContextResponses ==
    { [kind |-> k, data |-> Null] :
        k \in {"raise", "garbage", "json_list", "json_number"} }
    \cup { [kind |-> "object", data |-> d] :
             d \in { ContextObject([str |-> "E6"], [list |-> << suite301 >>],
                                   [list |-> << LT04 >>]),
                     ContextObject(Null, Null, [list |-> << >>]),
                     ContextObject([str |-> "E6"], Absent, [list |-> << >>]) } }

\* DrawingContext.from_dict (models.py 67-69): every key present in data is
\* passed on as data.get(k), null included; an absent key keeps its default.
from_dict(data) ==
    [ k \in DOMAIN DefaultContext |->
        IF data[k] = Absent THEN DefaultContext[k] ELSE data[k] ]

\* len(x) at context.py line 81: None has no len().
LenRaises(v) == v = Null

\* extract_context lines 59-76 for the response resp: the local variables
\* at the end of the try statement.
context_try(resp) ==
    IF resp.kind = "raise"
    THEN [ context |-> DefaultContext, vlm_calls |-> 0,
           error |-> [str |-> "api error"], metadata |-> Null ]
    ELSE IF resp.kind = "json_number"
    THEN [ context |-> DefaultContext, vlm_calls |-> 1,
           error |-> [str |-> "argument of type 'int' is not iterable"],
           metadata |-> Null ]
    ELSE LET ctx == IF resp.kind = "object" THEN from_dict(resp.data)
                    ELSE DefaultContext
         IN  [ context |-> ctx, vlm_calls |-> 1, error |-> Null,
               metadata |-> ctx ]

\* extract_context lines 78-84: the log line that follows the try statement.
context_log_raises(ctx) ==
    LenRaises(ctx.suites) \/ LenRaises(ctx.fixture_types_visible)

\* extract_context lines 31-58: render and issue the one remote call.
extract_context_enter ==
    /\ ctxPc' = "await"
    /\ ctxOut' = DefaultContext
    /\ phase1' = [ phase |-> 1, vlm_calls |-> 0, error |-> Null,
                   metadata |-> Null ]

\* extract_context lines 59-84: the remote call ends with resp.
ContextRespond(resp) ==
    /\ ctxPc = "await"
    /\ LET t == context_try(resp)
       IN  /\ ctxOut' = t.context
           /\ phase1' = [ phase1 EXCEPT !.vlm_calls = t.vlm_calls,
                                        !.error = t.error,
                                        !.metadata = t.metadata ]
           /\ ctxPc' = IF context_log_raises(t.context) THEN "raised"
                       ELSE "returned"
    /\ UNCHANGED << scope, cfg, plan, batchVars, agentVars, jobVars >>

----------------------------------------------------------------------------
(* The job worker: _process_job_async (job_processor.py) *)

\* Lines 48-63: the job is loaded and marked processing.
JobStart ==
    /\ jobPc = "pending"
    /\ jobPc' = "page"
    /\ status' = "processing"
    /\ UNCHANGED << context, coarse_detections, job_detections, synthCtx, report, page_vlm,
                    error_message, progress_message, sheet_results >>
    /\ UNCHANGED << scope, cfg, plan, batchVars, agentVars, ctxVars >>

\* Lines 73-100: a page starts and extract_context is awaited.
Phase1Start ==
    /\ jobPc = "page"
    /\ jobPc' = "phase1"
    /\ extract_context_enter
    /\ UNCHANGED << status, context, coarse_detections, job_detections,
                    synthCtx, report, page_vlm,
                    error_message, progress_message, sheet_results >>
    /\ UNCHANGED << scope, cfg, plan, batchVars, agentVars >>

\* The context argument the worker gives to inspect_batch, line 118.
Phase2Context(ctx) == ctx

\* Lines 100-118: extract_context returned; render, decompose, inspect_batch.
Phase2Start ==
    /\ jobPc = "phase1"
    /\ ctxPc = "returned"
    /\ jobPc' = "phase2"
    /\ context' = ctxOut
    /\ inspect_batch_enter(
         decompose(plan.w, plan.h, cfg.coarse_grid_cols, cfg.coarse_grid_rows),
         Phase2Context(ctxOut))
    /\ UNCHANGED << status, coarse_detections, job_detections, synthCtx, report, page_vlm,
                    error_message, progress_message, sheet_results >>
    /\ UNCHANGED << scope, cfg, plan, agentVars, ctxVars >>

\* inspect_batch has returned its list: its tasks' locals (attempt counters,
\* per-task results, the queue) are gone; the returned list stays.
batch_release ==
    /\ attempt' = [ c \in DOMAIN cells |-> 0 ]
    /\ taskOut' = [ c \in DOMAIN cells |-> << >> ]
    /\ exhausted' = [ c \in DOMAIN cells |-> FALSE ]
    /\ cellCalls' = [ c \in DOMAIN cells |-> 0 ]
    /\ cellSleeps' = [ c \in DOMAIN cells |-> << >> ]
    /\ UNCHANGED << cells, batchPc, batchCtx, semaphore, taskPc, taskCtx,
                    doneQueue, all_detections, completed >>

\* Going on as soon as the first cell was collected, without the fan-in.
Phase2JoinedFirst == batchPc = "returned" \/ (batchPc = "running" /\ completed >= 1)

\* Whether the worker may leave Phase 2: inspect_batch has returned, line 118.
Phase2Joined == batchPc = "returned"

\* Running Phase 3 whatever the detection mode.
RunsPhase3Always == TRUE

\* Line 130: Phase 3 is run in thorough mode only.
RunsPhase3 == cfg.detection_mode = "thorough"

\* Lines 118-148: inspect_batch returned; thorough mode constructs the
\* orchestrator and awaits run(), fast mode goes on to Phase 4.
Phase3Start ==
    /\ jobPc = "phase2"
    /\ Phase2Joined
    /\ coarse_detections' = all_detections
    /\ job_detections' = all_detections
    /\ IF RunsPhase3
       THEN /\ jobPc' = "phase3"
            /\ agent_construct(context, all_detections)
       ELSE /\ jobPc' = "phase4"
            /\ UNCHANGED agentVars
    /\ batch_release
    /\ UNCHANGED << status, context, synthCtx, report, page_vlm,
                    error_message, progress_message, sheet_results >>
    /\ UNCHANGED << scope, cfg, plan, ctxVars >>

\* Lines 148-155: run() returned; its detections are appended.
Phase3Return ==
    /\ jobPc = "phase3"
    /\ agentPc = "returned"
    /\ jobPc' = "phase4"
    /\ job_detections' = job_detections \o phase3.detections
    /\ UNCHANGED << status, context, coarse_detections, synthCtx, report, page_vlm,
                    error_message, progress_message, sheet_results >>
    /\ UNCHANGED << scope, cfg, plan, batchVars, agentVars, ctxVars >>

\* Lines 157-196: Phase 4 and the sheet result of the page.
PageSynthesize ==
    /\ jobPc = "phase4"
    /\ jobPc' = "finishing"
    /\ synthCtx' = context
    /\ report' = synthesize(job_detections, cfg.dedup_radius_px, context)
    /\ page_vlm' = phase1.vlm_calls + Len(cells)
                    + (IF cfg.detection_mode = "thorough" THEN phase3.vlm_calls ELSE 0)
    /\ UNCHANGED << status, context, coarse_detections, job_detections,
                    error_message, progress_message, sheet_results >>
    /\ UNCHANGED << scope, cfg, plan, batchVars, agentVars, ctxVars >>

\* Lines 185-211: the sheet result of the page is built, the workbook is
\* written and the sheet results are added and committed.
SheetsCommit ==
    /\ jobPc = "finishing"
    /\ jobPc' = "committed"
    /\ sheet_results' = Append(sheet_results,
         [ page_index |-> 0, total |-> report.total, vlm_calls_used |-> page_vlm ])
    /\ UNCHANGED << status, context, coarse_detections, job_detections, synthCtx,
                    report, page_vlm, error_message, progress_message >>
    /\ UNCHANGED << scope, cfg, plan, batchVars, agentVars, ctxVars >>

\* Lines 213-222: update_job marks the job completed.
JobComplete ==
    /\ jobPc = "committed"
    /\ jobPc' = "completed"
    /\ status' = "completed"
    /\ UNCHANGED << context, coarse_detections, job_detections, synthCtx, report, page_vlm,
                    error_message, progress_message, sheet_results >>
    /\ UNCHANGED << scope, cfg, plan, batchVars, agentVars, ctxVars >>

\* update_job lines 29-36 raises where it marks the job completed (lines
\* 213-222): the row cannot be read or the commit fails.
UpdateRaised == jobPc = "committed"

\* An exception reaches the worker's try statement from the awaited phase.
PhaseRaised ==
    \/ jobPc = "phase1" /\ ctxPc = "raised"
    \/ jobPc = "phase2" /\ batchPc = "raised"
    \/ jobPc = "phase3" /\ agentPc = "raised"

\* The slice bounds of lines 231 and 232.
ErrorMessageMax == 500
ProgressTextMax == 200

\* str(e) of the exception that reached the except clause.  A text is held
\* as the number of leading characters of str(e) it consists of; the texts
\* tried have lengths on both sides of the two slice bounds.
ExcTexts ==
    { [ of |-> "str(e)", len |-> n ] :
        n \in { ProgressTextMax, ProgressTextMax + 1, ErrorMessageMax + 1 } }

\* The text stored whole.
slice_whole(s, n) == s

\* s[:n] of lines 231 and 232: the first n characters, all of s if shorter.
slice(s, n) == [ s EXCEPT !.len = Min(s.len, n) ]

\* f"Failed: {...}" of line 232.
Failed(s) == [ prefix |-> "Failed: ", text |-> s ]

\* Lines 224-235: the except clause marks the job failed; an update_job that
\* raises in its turn is swallowed and leaves the row as it was.  The
\* exception has unwound inspect_batch, if it came from there.
JobFail(e, updated) ==
    /\ PhaseRaised \/ UpdateRaised
    /\ IF updated
       THEN /\ jobPc' = "failed"
            /\ status' = "failed"
            /\ error_message' = slice(e, ErrorMessageMax)
            /\ progress_message' = Failed(slice(e, ProgressTextMax))
       ELSE /\ jobPc' = "failed_unsaved"
            /\ UNCHANGED << status, error_message, progress_message >>
    /\ batch_release
    /\ UNCHANGED << context, coarse_detections, job_detections, synthCtx, report,
                    page_vlm, sheet_results >>
    /\ UNCHANGED << scope, cfg, plan, agentVars, ctxVars >>

JobStep ==
    \/ JobStart
    \/ Phase1Start
    \/ \E resp \in ContextResponses : ContextRespond(resp)
    \/ Phase2Start
    \/ Phase3Start
    \/ Phase3Return
    \/ PageSynthesize
    \/ SheetsCommit
    \/ JobComplete
    \/ \E e \in ExcTexts : \E updated \in BOOLEAN : JobFail(e, updated)

----------------------------------------------------------------------------
(* Specifications *)

Config(mc, budget, iters, mode) ==
    [ max_concurrent |-> mc, max_vlm_calls_phase3 |-> budget,
      max_agent_iterations |-> iters, detection_mode |-> mode,
      dedup_radius_px |-> dedup_radius_px,
      coarse_grid_cols |-> JobCols, coarse_grid_rows |-> 1,
      max_vlm_calls_total |-> MaxTotal ]

InitCtxVars ==
    /\ ctxPc = "none"
    /\ ctxOut = DefaultContext
    /\ phase1 = [ phase |-> 1, vlm_calls |-> 0, error |-> Null,
                  metadata |-> Null ]

InitJobVars(pc, st) ==
    /\ jobPc = pc
    /\ status = st
    /\ context = DefaultContext
    /\ job_detections = << >>
    /\ synthCtx = Null
    /\ report = Null
    /\ page_vlm = Null
    /\ error_message = Null
    /\ progress_message = Null
    /\ sheet_results = << >>

InitBatchVars ==
    /\ batchPc = "idle"
    /\ batchCtx = DefaultContext
    /\ semaphore = 0
    /\ taskPc = [ c \in DOMAIN cells |-> "ready" ]
    /\ taskCtx = [ c \in DOMAIN cells |-> DefaultContext ]
    /\ attempt = [ c \in DOMAIN cells |-> 0 ]
    /\ taskOut = [ c \in DOMAIN cells |-> << >> ]
    /\ exhausted = [ c \in DOMAIN cells |-> FALSE ]
    /\ cellCalls = [ c \in DOMAIN cells |-> 0 ]
    /\ cellSleeps = [ c \in DOMAIN cells |-> << >> ]
    /\ doneQueue = << >>
    /\ all_detections = << >>
    /\ completed = 0

InitAgentVars(pc, ctx, coarse) ==
    /\ agentPc = pc
    /\ agentCtx = ctx
    /\ detections = coarse
    /\ vlm_calls = 0
    /\ new_detections = << >>
    /\ iteration = 0
    /\ messages = << >>
    /\ tool_uses = << >>
    /\ tool_idx = 0
    /\ tool_results = << >>
    /\ cropAttempt = 0
    /\ phase3 = [ phase |-> 3, detections |-> << >>, vlm_calls |-> 0,
                  error |-> Null, summary |-> Null ]
    /\ orchCalls = 0
    /\ cropStarted = 0
    /\ cropRemote = 0
    /\ cropSleeps = << >>

\* inspect_batch on its own: any grid of 1..MaxCols cells.
InitBatch ==
    /\ scope = "batch"
    /\ plan = PlanImage
    /\ \E mc \in 1..MaxConcurrent : cfg = Config(mc, 0, 0, "fast")
    /\ \E cols \in 1..MaxCols : cells = decompose(PlanW, PlanH, cols, 1)
    /\ InitBatchVars
    /\ coarse_detections = << >>
    /\ InitAgentVars("none", DefaultContext, << >>)
    /\ InitCtxVars
    /\ InitJobVars("none", "none")

NextBatch == BatchStart \/ Phase2Step

SpecBatch == InitBatch /\ [][NextBatch]_vars

\* Phase 2 lists a caller may hand to the orchestrator.
CoarseLists ==
    { << >>,
      CellDetections(decompose(PlanW, PlanH, 1, 1)[1],
                     << RawDet(LT04, 50, 50, "MEDIUM") >>) }

\* AgentOrchestrator on its own: constructed, run() not yet called.
InitAgent ==
    /\ scope = "agent"
    /\ plan = PlanImage
    /\ \/ \E budget \in 0..MaxBudget : \E iters \in 1..MaxIterations :
            cfg = Config(1, budget, iters, "thorough")
       \* a longer conversation on the smallest budget
       \/ cfg = Config(1, 1, AgentIterations, "thorough")
    /\ cells = << >>
    /\ InitBatchVars
    /\ coarse_detections \in CoarseLists
    /\ InitAgentVars("constructed", DefaultContext, coarse_detections)
    /\ InitCtxVars
    /\ InitJobVars("none", "none")

NextAgent == Phase3Step

SpecAgent == InitAgent /\ [][NextAgent]_vars

\* Detections a caller may hand to synthesize.
SynthLabels == { LT04, << "L", "T", "1", "1" >> }
SynthPositions ==
    { << 0, 0 >>, << dedup_radius_px - 1, dedup_radius_px - 1 >>,
      << dedup_radius_px, 0 >>, << 0, dedup_radius_px >> }
SynthRanks == { << "HIGH", 2 >>, << "MEDIUM", 2 >>, << "MEDIUM", 3 >> }

SynthUniverse ==
    { [ label |-> l, x |-> p[1], y |-> p[2], confidence |-> r[1], room |-> Null,
        source_phase |-> r[2], source_cell |-> << >> ] :
        l \in SynthLabels, p \in SynthPositions, r \in SynthRanks }
    \cup
    \* a confidence CONF_RANK does not know, on one label
    { [ label |-> LT04, x |-> p[1], y |-> p[2], confidence |-> "CERTAIN",
        room |-> Null, source_phase |-> 3, source_cell |-> << >> ] :
        p \in SynthPositions }

SeqsUpTo(S, n) == UNION { [1..k -> S] : k \in 0..n }

\* synthesize on its own: any list of up to MaxDets detections.
InitSynth ==
    /\ scope = "synth"
    /\ plan = PlanImage
    /\ cfg = Config(1, 0, 0, "fast")
    /\ cells = << >>
    /\ InitBatchVars
    /\ coarse_detections = << >>
    /\ InitAgentVars("none", DefaultContext, << >>)
    /\ InitCtxVars
    /\ jobPc = "none"
    /\ status = "none"
    /\ context = DefaultContext
    /\ job_detections \in SeqsUpTo(SynthUniverse, MaxDets)
    /\ synthCtx = Null
    /\ report = Null
    /\ page_vlm = Null
    /\ error_message = Null
    /\ progress_message = Null
    /\ sheet_results = << >>

NextSynth == SynthesizeCall

SpecSynth == InitSynth /\ [][NextSynth]_vars

\* decompose as a caller uses it (job_processor.py line 117): grid.cells of
\* the plan image under the configured grid.
GridDecompose ==
    /\ scope = "grid"
    /\ cells = << >>
    /\ cells' = decompose(plan.w, plan.h, cfg.coarse_grid_cols, cfg.coarse_grid_rows)
    /\ UNCHANGED << batchPc, batchCtx, semaphore, taskPc, taskCtx, attempt,
                    taskOut, exhausted, cellCalls, cellSleeps, doneQueue,
                    all_detections, completed >>
    /\ UNCHANGED << scope, cfg, plan, agentVars, ctxVars, jobVars >>

\* decompose on its own: any image of 1..MaxPlanW by 1..MaxPlanH pixels and
\* any grid of 1..MaxGridCols by 1..MaxGridRows cells.
InitGrid ==
    /\ scope = "grid"
    /\ plan \in [ w : 1..MaxPlanW, h : 1..MaxPlanH ]
    /\ \E cols \in 1..MaxGridCols : \E rows \in 1..MaxGridRows :
         cfg = [ Config(1, 0, 0, "fast") EXCEPT !.coarse_grid_cols = cols,
                                                !.coarse_grid_rows = rows ]
    /\ cells = << >>
    /\ InitBatchVars
    /\ coarse_detections = << >>
    /\ InitAgentVars("none", DefaultContext, << >>)
    /\ InitCtxVars
    /\ InitJobVars("none", "none")

NextGrid == GridDecompose

SpecGrid == InitGrid /\ [][NextGrid]_vars

\* Configurations of the jobs run end to end.
JobConfigs ==
    { Config(1, MaxBudget, MaxIterations, "thorough"),
      Config(MaxConcurrent, MaxBudget, MaxIterations, "fast") }

\* A job of one page, from the moment the worker picks it up.
InitJob ==
    /\ scope = "job"
    /\ plan = PlanImage
    /\ cfg \in JobConfigs
    /\ cells = << >>
    /\ InitBatchVars
    /\ coarse_detections = << >>
    /\ InitAgentVars("none", DefaultContext, << >>)
    /\ InitCtxVars
    /\ InitJobVars("pending", "pending")

NextJob == JobStep \/ Phase2Step \/ Phase3Step

SpecJob == InitJob /\ [][NextJob]_vars

----------------------------------------------------------------------------
(* Claims *)

HoldingCount == Cardinality({ c \in CellIds : Holding(c) })

\* The detections of all tool results recorded in the transcript, in order.
TranscriptDetections ==
    Concat([ i \in 1..Len(messages) |->
               Concat([ j \in 1..Len(messages[i].results) |->
                          messages[i].results[j].details ]) ])

AssistantMessages == { i \in 1..Len(messages) : messages[i].role = "assistant" }

\* C1: one run() executes at most max_vlm_calls_phase3 crop_and_inspect
\* invocations, whatever the model answers, several crops in one turn included.
C1_BudgetEnforced == cropStarted <= cfg.max_vlm_calls_phase3

\* C2: per page the phases run in order.  No cell task exists before Phase 1
\* returned; the orchestrator exists (and any Phase 3 remote call is made)
\* only after inspect_batch returned with every cell task done and collected;
\* the report exists only after Phase 3 returned (thorough mode); and the
\* context Phase 1 returned is the one held by every cell task, by the
\* orchestrator and by synthesize.
C2_PhaseOrder ==
    /\ batchPc # "idle" =>
         /\ ctxPc = "returned"
         /\ batchCtx = ctxOut
         /\ \A c \in CellIds : taskCtx[c] = ctxOut
    /\ (agentPc # "none" \/ orchCalls > 0 \/ cropRemote > 0) =>
         /\ batchPc = "returned"
         /\ Len(cells) = cfg.coarse_grid_cols * cfg.coarse_grid_rows
         /\ completed = Len(cells)
         /\ \A c \in CellIds : taskPc[c] = "done"
         /\ agentCtx = ctxOut
         /\ cfg.detection_mode = "thorough"
    /\ report # Null =>
         /\ batchPc = "returned"
         /\ cfg.detection_mode = "thorough" => agentPc = "returned"
         /\ synthCtx = ctxOut

\* C2 witness: a thorough job completed with a parsed context, cell
\* detections and Phase 3 remote calls behind it.
C2_Witness ==
    /\ jobPc = "completed"
    /\ report # Null
    /\ ctxOut # DefaultContext
    /\ orchCalls > 0
    /\ cropRemote > 0
    /\ coarse_detections # << >>

\* C3: inside inspect_batch the cell tasks that hold a concurrency slot
\* (awaiting the remote call or sleeping in backoff) never number more than
\* max_concurrent, and slots held plus slots free stay max_concurrent.
C3_ConcurrencyCap ==
    batchPc # "idle" =>
      /\ HoldingCount <= cfg.max_concurrent
      /\ semaphore >= 0
      /\ HoldingCount + semaphore = cfg.max_concurrent

\* C3 witness: more cells than slots; every slot is held, one holder sleeps
\* in backoff and another task still waits for a slot.
C3_Witness ==
    /\ batchPc = "running"
    /\ Len(cells) > cfg.max_concurrent
    /\ HoldingCount = cfg.max_concurrent
    /\ \E c \in CellIds : taskPc[c] = "sleeping"
    /\ \E c \in CellIds : taskPc[c] = "ready"

\* C4: the report does not depend on the order in which the cell tasks
\* completed: synthesize on the list inspect_batch returned (completion
\* order) and on the same per-cell results in cell order gives the same
\* total, final_counts and duplicates_removed.
C4_CompletionOrderIrrelevant ==
    batchPc = "returned" =>
      LET inCellOrder == Concat([ c \in 1..Len(cells) |-> taskOut[c] ])
          r1 == synthesize(all_detections, cfg.dedup_radius_px, Null)
          r2 == synthesize(inCellOrder, cfg.dedup_radius_px, Null)
      IN  /\ r1.total = r2.total
          /\ r1.final_counts = r2.final_counts
          /\ r1.duplicates_removed = r2.duplicates_removed

\* C5: a cell whose call failed with a non-rate-limit error contributes
\* nothing and aborts nothing: inspect_batch does not raise and the job
\* does not fail.
C5_CellFailureTolerated ==
    (\E c \in CellIds : taskPc[c] = "raised") =>
      /\ batchPc # "raised"
      /\ jobPc # "failed"

\* C6: a cell whose every attempt was rate limited contributes no detection
\* and holds no slot, inspect_batch does not raise, and when it ends every
\* other cell was inspected and its detections are in the returned list.
C6_ExhaustionTolerated ==
    \A c \in CellIds :
      exhausted[c] =>
        /\ taskOut[c] = << >>
        /\ ~Holding(c)
        /\ batchPc # "raised"
        /\ batchPc = "returned" =>
             /\ \A d \in CellIds : taskPc[d] = "done"
             /\ \A d \in CellIds : \A i \in 1..Len(taskOut[d]) :
                  \E j \in 1..Len(all_detections) : all_detections[j] = taskOut[d][i]

\* C7: extract_context returns its pair for every outcome of the context
\* call; it never raises.
C7_ContextNeverRaises == ctxPc # "raised"

\* The Phase 1 remote call itself raised (the only path with an error and
\* no call counted).
Phase1CallRaised == phase1.error # Null /\ phase1.vlm_calls = 0

\* C8: when the Phase 1 remote call raised, the error is recorded, Phase 2
\* and Phase 3 run with the default context and the job ends with a
\* SynthesisReport for the page.
C8_GracefulDegradation ==
    Phase1CallRaised =>
      /\ ctxOut = DefaultContext
      /\ batchPc # "idle" => batchCtx = DefaultContext
      /\ agentPc # "none" => agentCtx = DefaultContext
      /\ jobPc # "failed"
      /\ jobPc = "completed" => report # Null /\ synthCtx = DefaultContext

\* C9: when a crop_and_inspect invocation failed with an exception after
\* earlier invocations found detections, the job still ends completed, with
\* the failure recorded as the Phase 3 error and the earlier detections in
\* the PhaseResult and in the input of synthesize.
C9_CropFailureContained ==
    (agentPc = "raised" /\ new_detections # << >> /\ jobPc \in {"completed", "failed"}) =>
      /\ jobPc = "completed"
      /\ phase3.error # Null
      /\ phase3.detections = new_detections
      /\ report # Null

\* C10: once a call to the orchestrating model raised, run() has returned
\* and no step of Phase 3 (no remote call) follows; PhaseResult.error holds
\* the error text; PhaseResult.detections are exactly the detections of the
\* tool results of the earlier turns; and the failed call is the only call
\* without an assistant message in the transcript.
C10_OrchestratorError ==
    phase3.error # Null =>
      /\ agentPc = "returned"
      /\ ~ENABLED Phase3Step
      /\ phase3.error = [str |-> "orchestrator error"]
      /\ phase3.detections = TranscriptDetections
      /\ phase3.vlm_calls = vlm_calls
      /\ orchCalls = Cardinality(AssistantMessages) + 1

\* C10 witness: the orchestrator call raised in a later turn, after a crop
\* of an earlier turn had found a detection.
C10_Witness ==
    /\ phase3.error # Null
    /\ iteration >= 1
    /\ phase3.detections # << >>

\* The detections behind the tool results of the current turn, in order.
TurnDetections ==
    Concat([ j \in 1..Len(tool_results) |-> tool_results[j].details ])

\* C11: once finalize was reached, run() has returned and no step of Phase 3
\* follows (no later tool call of the turn, no orchestrator or inspection
\* call); only the tool calls listed before finalize in the turn were
\* executed; the PhaseResult holds every detection of the earlier turns and
\* of the earlier tool calls of this turn, and no error.
C11_FinalizeEndsLoop ==
    phase3.summary # Null =>
      /\ agentPc = "returned"
      /\ ~ENABLED Phase3Step
      /\ tool_uses[tool_idx].name = "finalize"
      /\ Len(tool_results) = tool_idx - 1
      /\ phase3.detections = TranscriptDetections \o TurnDetections
      /\ phase3.vlm_calls = vlm_calls
      /\ phase3.error = Null

\* C11 witness: finalize came after a crop of the same turn that found a
\* detection and before another tool call of that turn.
C11_Witness ==
    /\ phase3.summary # Null
    /\ tool_idx > 1
    /\ tool_idx < Len(tool_uses)
    /\ TurnDetections # << >>

\* C12: run() makes at most max_agent_iterations calls to the orchestrating
\* model, and however a remote call ends (it returns or it raises), run()
\* goes on towards returning a PhaseResult: it is never ended by the
\* exception.
C12_RunTerminates ==
    [][ /\ orchCalls' <= cfg.max_agent_iterations
        /\ agentPc \in {"await_orch", "await_crop"} => agentPc' # "raised" ]_vars

RECURSIVE SumCounts(_)
SumCounts(fc) == IF fc = << >> THEN 0 ELSE Head(fc).count + SumCounts(Tail(fc))

\* C13: every report of synthesize has total = len(detections) =
\* sum(final_counts.values()), the report of the empty list included.
C13_TotalsAgree ==
    report # Null =>
      /\ report.total = Len(report.detections)
      /\ report.total = SumCounts(report.final_counts)

\* C13 witness: a report in which one label is kept twice and a duplicate
\* was removed.
C13_Witness ==
    /\ scope = "synth"
    /\ report # Null
    /\ report.duplicates_removed > 0
    /\ \E j \in 1..Len(report.final_counts) : report.final_counts[j].count = 2

\* C14: of two same-label detections, both are kept when their distance on
\* one axis is exactly dedup_radius_px; when both distances are at most
\* dedup_radius_px - 1 exactly one is kept, the one of higher confidence.
C14_RadiusBoundary ==
    (/\ scope = "synth"
     /\ report # Null
     /\ Len(job_detections) = 2
     /\ job_detections[1].label = job_detections[2].label) =>
      LET a == job_detections[1]
          b == job_detections[2]
          dx == Abs(a.x - b.x)
          dy == Abs(a.y - b.y)
          r == cfg.dedup_radius_px
      IN  /\ (dx = r \/ dy = r) => report.detections \in { << a, b >>, << b, a >> }
          /\ (dx <= r - 1 /\ dy <= r - 1) =>
               /\ report.total = 1
               /\ CONF_RANK(a.confidence) > CONF_RANK(b.confidence)
                    => report.detections = << a >>
               /\ CONF_RANK(b.confidence) > CONF_RANK(a.confidence)
                    => report.detections = << b >>

\* C14 witness: two same-label detections exactly dedup_radius_px apart on
\* the x axis and at the same y, both in the report.
C14_Witness ==
    /\ scope = "synth"
    /\ report # Null
    /\ Len(job_detections) = 2
    /\ job_detections[1].label = job_detections[2].label
    /\ Abs(job_detections[1].x - job_detections[2].x) = cfg.dedup_radius_px
    /\ job_detections[1].y = job_detections[2].y
    /\ report.total = 2

\* Two detections that the dedup test treats as one: same label and closer
\* than the radius on both axes.
Near(a, b, r) ==
    /\ a.label = b.label
    /\ Abs(a.x - b.x) < r
    /\ Abs(a.y - b.y) < r

NoClosePair(ds, r) ==
    \A i \in 1..Len(ds) : \A j \in 1..Len(ds) : i < j => ~Near(ds[i], ds[j], r)

RemoveAt(ds, i) == SubSeq(ds, 1, i - 1) \o SubSeq(ds, i + 1, Len(ds))

\* C16: with no context, a list of n detections without a close same-label
\* pair gives total = n, duplicates_removed = 0 and no warnings; and a list
\* made of such a list plus one detection (anywhere in the list, of any
\* confidence and phase) that is close to a HIGH detection of it gives
\* total = n and duplicates_removed = 1.
C16_AddedDuplicate ==
    (scope = "synth" /\ report # Null /\ synthCtx = Null) =>
      LET ds == job_detections
          r == cfg.dedup_radius_px
      IN  /\ NoClosePair(ds, r) =>
               /\ report.total = Len(ds)
               /\ report.duplicates_removed = 0
               /\ report.pattern_warnings = << >>
          /\ \A i \in 1..Len(ds) :
               LET base == RemoveAt(ds, i)
               IN  (/\ NoClosePair(base, r)
                    /\ \E j \in 1..Len(base) :
                         base[j].confidence = "HIGH" /\ Near(base[j], ds[i], r)) =>
                     /\ report.total = Len(base)
                     /\ report.duplicates_removed = 1

\* The cells whose rectangle [x0,x1) x [y0,y1) holds pixel (px, py).
CellsAt(px, py) ==
    { i \in 1..Len(cells) :
        /\ cells[i].x0 <= px /\ px < cells[i].x1
        /\ cells[i].y0 <= py /\ py < cells[i].y1 }

GridDone == scope = "grid" /\ cells # << >>

\* C17: the cells returned by decompose cover the page: every pixel of
\* [0,W) x [0,H) lies in some cell, and no cell reaches outside the page.
C17_GridCovers ==
    GridDone =>
      /\ \A px \in 0..(plan.w - 1) : \A py \in 0..(plan.h - 1) : CellsAt(px, py) # {}
      /\ \A i \in 1..Len(cells) :
           /\ 0 <= cells[i].x0 /\ cells[i].x1 <= plan.w
           /\ 0 <= cells[i].y0 /\ cells[i].y1 <= plan.h

C19_LabelsMatchPattern ==
    \A ds \in { all_detections, new_detections } \cup Range(taskOut) :
      \A i \in 1..Len(ds) :
        /\ ds[i].label = Strip(Upper(ds[i].label))
        /\ label_pattern_fullmatch(ds[i].label)

\* C20: in mode fast no Phase 3 call is ever made (no orchestrator, no
\* crop_and_inspect, no inspection call of a crop), the report is synthesize
\* of exactly the Phase 2 detections and the page's VLM call total is the
\* Phase 1 calls plus the cells; in mode thorough the report exists only
\* after the one run of Phase 3 returned, whose detections follow the
\* Phase 2 ones and whose calls are added to the page total.
C20_FastSkipsPhase3 ==
    /\ cfg.detection_mode = "fast" =>
         /\ agentPc = "none"
         /\ orchCalls = 0 /\ cropStarted = 0 /\ cropRemote = 0
         /\ report # Null =>
              /\ job_detections = all_detections
              /\ report = synthesize(all_detections, cfg.dedup_radius_px, context)
              /\ page_vlm = phase1.vlm_calls + Len(cells)
    /\ cfg.detection_mode = "thorough" =>
         /\ jobPc \in {"pending", "page", "phase1", "phase2"} => agentPc = "none"
         /\ report # Null =>
              /\ agentPc = "returned"
              /\ job_detections = all_detections \o phase3.detections
              /\ page_vlm = phase1.vlm_calls + Len(cells) + phase3.vlm_calls

\* C20 witness: a fast job completed with Phase 2 detections in its report.
C20_Witness ==
    /\ cfg.detection_mode = "fast"
    /\ jobPc = "completed"
    /\ report # Null
    /\ report.total > 0
    /\ page_vlm = Len(cells) + 1

\* C21: the VLM calls counted for one page over all phases never exceed the
\* configured cap max_vlm_calls_total.
C21_TotalCap ==
    jobPc \in {"finishing", "completed"} => page_vlm <= cfg.max_vlm_calls_total

\* C22: inspect_batch runs one inspection task per grid cell and returns the
\* multiset union of the cells' detections: each detection a cell accepted
\* is in the result as often as the cells returned it, tagged source_phase 2
\* and source_cell (col, row) of its cell, whatever the completion order.
C22_BatchUnion ==
    batchPc = "returned" =>
      LET inCellOrder == Concat([ c \in 1..Len(cells) |-> taskOut[c] ])
          Times(d, s) == Cardinality({ i \in 1..Len(s) : s[i] = d })
      IN  /\ DOMAIN taskPc = 1..Len(cells)
          /\ completed = Len(cells)
          /\ \A c \in CellIds : taskPc[c] = "done" /\ cellCalls[c] >= 1
          /\ Len(all_detections) = Len(inCellOrder)
          /\ \A d \in Range(all_detections) \cup Range(inCellOrder) :
               Times(d, all_detections) = Times(d, inCellOrder)
          /\ \A c \in CellIds : \A i \in 1..Len(taskOut[c]) :
               /\ taskOut[c][i].source_phase = 2
               /\ taskOut[c][i].source_cell = << cells[c].col, cells[c].row >>

\* Two cells returned detections and the second cell completed first.
C22_Witness ==
    /\ batchPc = "returned"
    /\ Len(cells) >= 2
    /\ taskOut[1] # << >>
    /\ taskOut[2] # << >>
    /\ all_detections[1].source_cell = << cells[2].col, cells[2].row >>

\* C23: when an exception escapes the processing of a job, the job row ends
\* with status "failed", an error_message of at most 500 characters and a
\* progress message "Failed: " followed by at most 200 characters of it;
\* the row stays in "processing" only when it could not be updated.
C23_FailureVisible ==
    /\ (ctxPc = "raised" \/ batchPc = "raised" \/ agentPc = "raised") =>
         status # "completed"
    /\ jobPc \in {"completed", "failed"} => status # "processing"
    /\ jobPc = "failed" =>
         /\ status = "failed"
         /\ error_message.len <= ErrorMessageMax
         /\ \E k \in 0..ProgressTextMax :
              /\ k <= error_message.len
              /\ progress_message = Failed([error_message EXCEPT !.len = k])

\* A job failed on an exception whose text is longer than both bounds.
C23_Witness ==
    /\ jobPc = "failed"
    /\ status = "failed"
    /\ error_message.len = ErrorMessageMax
    /\ progress_message.text.len = ProgressTextMax

\* C24: validate_pattern (any pattern_type) and get_current_state are
\* read-only and free: executing one leaves the running detection list and
\* the VLM call counter as they were, issues no remote call and returns no
\* new detections.
C24_LocalToolsFree ==
    [][ ( /\ agentPc = "tools"
          /\ tool_uses[tool_idx].name \in {"validate_pattern", "get_current_state"} )
        => /\ detections' = detections
           /\ new_detections' = new_detections
           /\ vlm_calls' = vlm_calls
           /\ cropRemote' = cropRemote
           /\ orchCalls' = orchCalls
           /\ agentPc' \in {"tools", "loop"}
           /\ tool_results'[Len(tool_results')].kind = tool_uses[tool_idx].name
           /\ tool_results'[Len(tool_results')].details = << >> ]_vars

\* Both tools were executed in one turn while the running list held
\* detections and a crop had been counted.
C24_Witness ==
    /\ agentPc = "loop"
    /\ Len(tool_results) = 3
    /\ tool_results[2].kind = "get_current_state"
    /\ tool_results[3].kind = "validate_pattern"
    /\ detections # << >>
    /\ vlm_calls > 0

\* The results of all tool calls executed so far, in execution order: those
\* appended to the transcript and those of the turn still being executed.
ToolResultsSoFar ==
    Concat([ i \in 1..Len(messages) |-> messages[i].results ])
    \o (IF /\ messages # << >>
           /\ messages[Len(messages)].role = "assistant"
           /\ messages[Len(messages)].ids # << >>
        THEN tool_results ELSE << >>)

\* C25: every completed crop_and_inspect invocation costs exactly one unit:
\* vlm_calls, and PhaseResult.vlm_calls on return, is the number of
\* invocations completed, retried and exhausted ones included, and the
\* budget get_current_state reports is max_vlm_calls_phase3 - vlm_calls.
C25_OneUnitPerCrop ==
    LET done == ToolResultsSoFar
        crops(n) == Cardinality({ i \in 1..n : done[i].kind = "crop_and_inspect" })
    IN  /\ vlm_calls = crops(Len(done))
        /\ agentPc = "returned" => phase3.vlm_calls = vlm_calls
        /\ \A i \in 1..Len(done) :
             done[i].kind = "get_current_state" =>
               /\ done[i].content.vlm_calls_used = crops(i - 1)
               /\ done[i].content.vlm_calls_remaining
                    = cfg.max_vlm_calls_phase3 - crops(i - 1)

\* An inspection that was rate limited on every attempt has been counted.
C25_Witness ==
    /\ agentPc = "returned"
    /\ Len(cropSleeps) = CropAttempts
    /\ cropStarted = 2
    /\ phase3.vlm_calls = 2

\* C26: the tool calls of a turn are executed one at a time in the listed
\* order: a call starts only when the previous one has finished and its
\* detections are in the running list, so get_current_state and
\* validate_pattern see the detections and the call count of every earlier
\* crop; the next orchestrator call is issued only when the results of the
\* turn are in the transcript.
C26_SequentialTools ==
    LET done == ToolResultsSoFar
        last == messages[Len(messages)]
        inTurn == /\ messages # << >>
                  /\ last.role = "assistant"
                  /\ last.ids # << >>
        before(n) == Concat([ i \in 1..(n - 1) |-> done[i].details ])
        crops(n) == Cardinality({ i \in 1..n : done[i].kind = "crop_and_inspect" })
        corridor(s) == Cardinality({ i \in 1..Len(s) :
                         Contains(RoomText(s[i]),
                                  << "c", "o", "r", "r", "i", "d", "o", "r" >>) })
    IN  /\ inTurn =>
             /\ Len(tool_results) <= Len(last.ids)
             /\ \A j \in 1..Len(tool_results) :
                  /\ tool_results[j].tool_use_id = last.ids[j]
                  /\ tool_results[j].kind \in {tool_uses[j].name, "error"}
             /\ agentPc \in {"tools", "await_crop", "crop_sleep"} =>
                  /\ Len(tool_results) = tool_idx - 1
                  /\ detections = coarse_detections \o before(Len(done) + 1)
                  /\ vlm_calls = crops(Len(done))
        /\ agentPc = "await_orch" => ~inTurn
        /\ \A i \in 1..Len(messages) :
             (messages[i].role = "assistant" /\ messages[i].ids # << >> /\ i < Len(messages))
               => /\ messages[i + 1].role = "user"
                  /\ messages[i + 1].ids = messages[i].ids
        /\ \A n \in 1..Len(done) :
             /\ done[n].kind = "get_current_state" =>
                  /\ done[n].content.total_detections
                       = Len(coarse_detections) + Len(before(n))
                  /\ done[n].content.vlm_calls_used = crops(n - 1)
             /\ (done[n].kind = "validate_pattern"
                   /\ "corridor" \in DOMAIN done[n].content) =>
                  done[n].content.corridor.total_corridor_fixtures
                    = corridor(coarse_detections \o before(n))

\* A turn of a crop followed by both local tools is in the transcript; the
\* crop found detections, one of them in a corridor.
C26_Witness ==
    /\ agentPc = "loop"
    /\ Len(tool_results) = 3
    /\ tool_results[1].kind = "crop_and_inspect"
    /\ tool_results[1].details # << >>
    /\ tool_results[2].content.total_detections > Len(coarse_detections)
    /\ tool_results[3].content.corridor.total_corridor_fixtures = 1
    /\ messages[Len(messages)].results = tool_results

\* C27: the remote inference calls Phase 3 spends for one page, calls to the
\* orchestrating model plus crop inspections (each crop_and_inspect counted
\* once), never exceed max_vlm_calls_phase3.
C27_AllCallsWithinBudget ==
    orchCalls + vlm_calls <= cfg.max_vlm_calls_phase3

\* C28: rate-limit retry is bounded with doubling backoff: a Phase 2 cell
\* issues at most 4 remote calls and a Phase 3 crop inspection at most 3;
\* the wait after the k-th consecutive rate-limit error is 15 * 2^(k-1)
\* seconds; the first response that is no rate-limit error ends the retries:
\* every call but the last of a cell or crop was rate limited and slept on.
C28_BoundedBackoff ==
    /\ jobPc = "phase2" =>
         \A c \in CellIds :
           /\ cellCalls[c] <= 4
           /\ \A k \in 1..Len(cellSleeps[c]) : cellSleeps[c][k] = 15 * 2^(k - 1)
           /\ taskPc[c] = "ready" => cellCalls[c] = 0
           /\ taskPc[c] = "calling" => cellCalls[c] = Len(cellSleeps[c]) + 1
           /\ taskPc[c] = "sleeping" => cellCalls[c] = Len(cellSleeps[c])
           /\ taskPc[c] \in {"done", "raised"} =>
                IF exhausted[c]
                THEN cellCalls[c] = 4 /\ Len(cellSleeps[c]) = 4
                ELSE cellCalls[c] = Len(cellSleeps[c]) + 1
    /\ cropRemote <= 3
    /\ \A k \in 1..Len(cropSleeps) : cropSleeps[k] = 15 * 2^(k - 1)
    /\ agentPc = "await_crop" => cropRemote = Len(cropSleeps) + 1
    /\ agentPc = "crop_sleep" => cropRemote = Len(cropSleeps)
    /\ (agentPc \in {"tools", "loop", "returned"} /\ cropRemote > 0) =>
         \/ cropRemote = Len(cropSleeps) + 1
         \/ cropRemote = 3 /\ Len(cropSleeps) = 3

\* Phase 3 of a job has returned; its latest crop inspection was rate limited
\* twice, waited 15 and 30 seconds and was answered on its third call.
C28_Witness ==
    /\ jobPc = "phase4"
    /\ cropRemote = 3
    /\ cropSleeps = << 15, 30 >>
    /\ job_detections # << >>
    /\ phase3.detections # << >>

\* C29 as stated: every detection of the input has a kept detection of its
\* label within the radius on both axes whose (confidence rank, phase) is
\* at least its own (HIGH 3, MEDIUM 2, LOW 1, anything else 0); and of two
\* mutually duplicate detections the Phase 3 one of equal confidence, or
\* the Phase 2 HIGH one against a Phase 3 MEDIUM one, is kept.
C29_PairAlwaysKept ==
    (scope = "synth" /\ report # Null) =>
      LET r == cfg.dedup_radius_px
          kept == Range(report.detections)
          rank(c) == IF c = "HIGH" THEN 3 ELSE IF c = "MEDIUM" THEN 2
                     ELSE IF c = "LOW" THEN 1 ELSE 0
          atLeast(k, d) ==
              \/ rank(k.confidence) > rank(d.confidence)
              \/ /\ rank(k.confidence) = rank(d.confidence)
                 /\ k.source_phase >= d.source_phase
          preferred(a, b) ==
              /\ Near(a, b, r)
              /\ \/ a.confidence = b.confidence /\ a.source_phase = 3
                      /\ b.source_phase = 2
                 \/ a.confidence = "HIGH" /\ a.source_phase = 2
                      /\ b.confidence = "MEDIUM" /\ b.source_phase = 3
      IN  /\ \A d \in Range(job_detections) :
               \E k \in kept : Near(k, d, r) /\ atLeast(k, d)
          /\ \A a \in Range(job_detections) : \A b \in Range(job_detections) :
               preferred(a, b) => a \in kept

\* C29: every detection of the input has a kept detection of its label
\* within the radius on both axes whose (confidence rank, phase) is at
\* least its own (HIGH 3, MEDIUM 2, LOW 1, anything else 0); of two mutually
\* duplicate detections, the Phase 3 one of equal confidence, or the Phase 2
\* HIGH one against a Phase 3 MEDIUM one, is kept whenever the list holds
\* just the two, the other one is never kept beside it, and it is dropped
\* only as a duplicate of a kept detection ranking at least as high.
C29_RetentionPriority ==
    (scope = "synth" /\ report # Null) =>
      LET r == cfg.dedup_radius_px
          kept == Range(report.detections)
          rank(c) == IF c = "HIGH" THEN 3 ELSE IF c = "MEDIUM" THEN 2
                     ELSE IF c = "LOW" THEN 1 ELSE 0
          atLeast(k, d) ==
              \/ rank(k.confidence) > rank(d.confidence)
              \/ /\ rank(k.confidence) = rank(d.confidence)
                 /\ k.source_phase >= d.source_phase
          preferred(a, b) ==
              /\ Near(a, b, r)
              /\ \/ a.confidence = b.confidence /\ a.source_phase = 3
                      /\ b.source_phase = 2
                 \/ a.confidence = "HIGH" /\ a.source_phase = 2
                      /\ b.confidence = "MEDIUM" /\ b.source_phase = 3
      IN  /\ \A d \in Range(job_detections) :
               \E k \in kept : Near(k, d, r) /\ atLeast(k, d)
          /\ \A a \in Range(job_detections) : \A b \in Range(job_detections) :
               preferred(a, b) =>
                 /\ ~(a \in kept /\ b \in kept)
                 /\ Len(job_detections) = 2 => (a \in kept /\ b \notin kept)
                 /\ a \notin kept =>
                      \E k \in kept : k # a /\ Near(k, a, r) /\ atLeast(k, a)

\* A Phase 3 detection of unrecognised confidence and a Phase 2 MEDIUM one
\* were both dropped for a Phase 3 MEDIUM one listed after them.
C29_Witness ==
    /\ scope = "synth"
    /\ report # Null
    /\ Len(job_detections) = 3
    /\ job_detections[1].confidence = "CERTAIN"
    /\ job_detections[2].confidence = "MEDIUM" /\ job_detections[2].source_phase = 2
    /\ job_detections[3].confidence = "MEDIUM" /\ job_detections[3].source_phase = 3
    /\ Near(job_detections[1], job_detections[2], cfg.dedup_radius_px)
    /\ Near(job_detections[2], job_detections[3], cfg.dedup_radius_px)
    /\ report.detections = << job_detections[3] >>

\* C30: when the drawing context holds suites, the report has one warning
\* for each suite number that no kept detection's room text mentions, for
\* every detection list, the empty one included; with no suites it has none.
C30_WarningPerSuite ==
    jobPc \in {"finishing", "completed"} =>
      LET hasSuites == /\ synthCtx # Null
                       /\ synthCtx.suites # Null
                       /\ synthCtx.suites.list # << >>
          numbers == { s.number : s \in Range(synthCtx.suites.list) }
          uncovered ==
              { sn \in numbers :
                  ~\E i \in 1..Len(report.detections) :
                      Contains(RoomText(report.detections[i]), Lower(sn)) }
      IN  Len(report.pattern_warnings)
            = IF hasSuites THEN Cardinality(uncovered) ELSE 0

\* C31: every PhaseResult extract_context returns has phase 1, vlm_calls 1
\* and the returned context in its metadata, whether the call succeeded, its
\* answer could not be parsed or the call itself failed.
C31_Phase1Result ==
    ctxPc = "returned" =>
      /\ phase1.phase = 1
      /\ phase1.vlm_calls = 1
      /\ phase1.metadata = ctxOut

C33_Coordinates ==
    [][ \A c \in CellIds : \A resp \in CellResponses :
          (resp.kind = "ok" /\ CellRespond(c, resp)) =>
            LET cell == cells[c]
                Accepted(d) == label_pattern_match(Strip(Upper(d.label)))
                acc == SelectSeq(resp.dets, Accepted)
                numeric(p) == /\ p.kind = "dict"
                              /\ {"x", "y"} \subseteq DOMAIN p
                              /\ p.x # Null /\ p.y # Null
            IN  /\ taskPc'[c] = "done"
                /\ Len(taskOut'[c]) = Len(acc)
                /\ \A i \in 1..Len(acc) :
                     LET p == acc[i].position
                         o == taskOut'[c][i]
                     IN  IF numeric(p)
                         THEN /\ o.x = cell.x0 + (p.x.num * (cell.x1 - cell.x0)) \div 100
                              /\ o.y = cell.y0 + (p.y.num * (cell.y1 - cell.y0)) \div 100
                              /\ cell.x0 <= o.x /\ o.x <= cell.x1
                              /\ cell.y0 <= o.y /\ o.y <= cell.y1
                         ELSE /\ o.x = (cell.x0 + cell.x1) \div 2
                              /\ o.y = (cell.y0 + cell.y1) \div 2 ]_vars

\* C34: every detection a crop_and_inspect invocation returns is tagged
\* source_phase 3 and all detections of one invocation carry the same page
\* coordinates, the crop centre scaled to the coarse page size; so synthesis
\* of the running list, at any positive radius, keeps at most one detection
\* per label out of one invocation.
C34_OnePointPerCrop ==
    LET done == ToolResultsSoFar
        crops == { n \in 1..Len(done) :
                     done[n].kind = "crop_and_inspect" /\ done[n].details # << >> }
    IN  /\ \A n \in crops :
             \A i \in 1..Len(done[n].details) :
               /\ done[n].details[i].source_phase = 3
               /\ done[n].details[i].x = done[n].details[1].x
               /\ done[n].details[i].y = done[n].details[1].y
        /\ \A radius \in {1, cfg.dedup_radius_px} :
             LET kept == synthesize(detections, radius, Null).detections
             IN  \A n \in crops :
                   \A i \in 1..Len(done[n].details) :
                     Cardinality({ k \in 1..Len(kept) :
                         /\ kept[k].label = done[n].details[i].label
                         /\ kept[k].source_phase = 3
                         /\ kept[k].x = done[n].details[1].x
                         /\ kept[k].y = done[n].details[1].y }) <= 1
        /\ \A j \in 1..Len(tool_results) :
             ( /\ j <= Len(tool_uses)
               /\ tool_results[j].tool_use_id = ToolUseId(orchCalls, j)
               /\ tool_results[j].kind = "crop_and_inspect" ) =>
               \A i \in 1..Len(tool_results[j].details) :
                 /\ tool_results[j].details[i].x
                      = (tool_uses[j].x_pct * PlanW) \div 100
                 /\ tool_results[j].details[i].y
                      = (tool_uses[j].y_pct * PlanH) \div 100

\* One crop reported the same label twice, and two crops of one turn at
\* different centres reported a fixture each.
C34_Witness ==
    /\ agentPc = "returned"
    /\ \E n \in 1..Len(ToolResultsSoFar) :
         LET ds == ToolResultsSoFar[n].details
         IN  \E i, k \in 1..Len(ds) : i < k /\ ds[i].label = ds[k].label
    /\ \E n, m \in 1..Len(ToolResultsSoFar) :
         LET a == ToolResultsSoFar[n].details
             b == ToolResultsSoFar[m].details
         IN  a # << >> /\ b # << >> /\ a[1].x # b[1].x

\* C35: conservation in synthesize: total + duplicates_removed is the number
\* of input detections, and the kept detections are input detections,
\* unaltered and each taken no more often than the input holds it, so every
\* input detection is either kept or counted once as a duplicate.
C35_Conservation ==
    (scope = "synth" /\ report # Null) =>
      LET Times(v, s) == Cardinality({ i \in 1..Len(s) : s[i] = v })
      IN  /\ report.total + report.duplicates_removed = Len(job_detections)
          /\ report.total = Len(report.detections)
          /\ \A v \in Range(report.detections) :
               Times(v, report.detections) <= Times(v, job_detections)
          /\ \A v \in Range(job_detections) :
               Times(v, job_detections) - Times(v, report.detections)
                 <= report.duplicates_removed

\* The same detection was given twice next to a different one of its label;
\* one copy was kept and two inputs were counted as duplicates.
C35_Witness ==
    /\ scope = "synth"
    /\ report # Null
    /\ Len(job_detections) = 3
    /\ job_detections[1] = job_detections[3]
    /\ job_detections[2] # job_detections[1]
    /\ report.duplicates_removed = 2
    /\ report.detections = << job_detections[1] >>

\* C36: in every report of synthesize no two kept detections have the same
\* label and lie within the radius on both axes, and detections of different
\* labels are never merged: the kept detections of each label are those
\* synthesize keeps of the input detections of that label alone.
C36_SameLabelOnly ==
    (scope = "synth" /\ report # Null) =>
      /\ NoClosePair(report.detections, cfg.dedup_radius_px)
      /\ \A l \in { job_detections[i].label : i \in 1..Len(job_detections) } :
           LET HasLabel(d) == d.label = l
           IN  SelectSeq(report.detections, HasLabel)
                 = synthesize(SelectSeq(job_detections, HasLabel),
                              cfg.dedup_radius_px, synthCtx).detections

\* Two detections of different labels at one point were both kept, next to
\* a detection of one of the labels exactly one radius away.
C36_Witness ==
    /\ scope = "synth"
    /\ report # Null
    /\ Len(report.detections) = 3
    /\ \E i, j \in 1..Len(report.detections) :
         /\ report.detections[i].label # report.detections[j].label
         /\ report.detections[i].x = report.detections[j].x
         /\ report.detections[i].y = report.detections[j].y
    /\ \E i, j \in 1..Len(report.detections) :
         /\ report.detections[i].label = report.detections[j].label
         /\ Abs(report.detections[i].x - report.detections[j].x) = cfg.dedup_radius_px
         /\ report.detections[i].y = report.detections[j].y

\* C37: synthesize is idempotent on its own output: applied to the detections
\* of a report it returned, with the same radius and context, it returns the
\* same detections in the same order, the same final_counts and total, and
\* duplicates_removed = 0.
C37_Idempotent ==
    (scope = "synth" /\ report # Null) =>
      LET again == synthesize(report.detections, cfg.dedup_radius_px, synthCtx)
      IN  /\ again.detections = report.detections
          /\ again.final_counts = report.final_counts
          /\ again.total = report.total
          /\ again.duplicates_removed = 0

\* The report keeps two detections of equal sort key, of two labels, after
\* removing a duplicate.
C37_Witness ==
    /\ scope = "synth"
    /\ report # Null
    /\ report.duplicates_removed = 1
    /\ Len(report.detections) = 2
    /\ Len(report.final_counts) = 2
    /\ ~KeyGreater(report.detections[1], report.detections[2])
    /\ ~KeyGreater(report.detections[2], report.detections[1])

\* C38: the transcript sent to the orchestrating model is well formed before
\* every call: it begins with a user message, user and assistant messages
\* strictly alternate, and the user message after an assistant message holds
\* one tool result for each of its tool calls, with the matching ids in the
\* same order, whatever the model answered before, a response without a tool
\* call whose stop reason is not end_turn included.
C38_TranscriptWellFormed ==
    agentPc = "await_orch" =>
      /\ messages # << >>
      /\ messages[1].role = "user"
      /\ \A i \in 1..(Len(messages) - 1) :
           /\ messages[i].role # messages[i + 1].role
           /\ messages[i].role = "assistant" =>
                messages[i + 1].ids = messages[i].ids

\* C39: the job status only moves pending -> processing -> completed or
\* pending/processing -> failed, completed and failed are never changed by
\* the worker afterwards, completed is written only after the page has been
\* synthesised and its sheet result committed, and a job whose processing
\* raised has no sheet result committed by that run.
C39_StatusLifecycle ==
    [][ /\ status' # status =>
             << status, status' >> \in { << "pending", "processing" >>,
                                         << "processing", "completed" >>,
                                         << "pending", "failed" >>,
                                         << "processing", "failed" >> }
        /\ (status' = "completed" /\ status # "completed") =>
             /\ report # Null
             /\ Len(sheet_results) = 1
             /\ sheet_results[1].total = report.total
        /\ jobPc' \in {"failed", "failed_unsaved"} => sheet_results' = << >>
      ]_vars

\* C40: inspect_batch terminates without deadlock or starvation when every
\* remote call returns or raises a rate-limit error: while it runs some task
\* or the collecting loop can take a step, a task whose remote call returned
\* or was rate limited goes on to finish with detections or with none
\* (never with an exception that ends inspect_batch instead of a return), a
\* finishing task releases its slot, and every task has finished when
\* inspect_batch returns.
C40_BatchTerminates ==
    [][ /\ batchPc = "running" => ENABLED Phase2Step
        /\ \A c \in CellIds : \A resp \in CellResponses :
             (resp.kind # "error" /\ CellRespond(c, resp)) =>
               /\ taskPc'[c] \in {"sleeping", "done"}
               /\ taskPc'[c] = "done" => semaphore' = semaphore + 1
        /\ batchPc' = "returned" => \A c \in CellIds : taskPc'[c] = "done"
      ]_vars

====
